---- MODULE Spec2Model ----
(***************************************************************************)
(* Frame loop of VulkanApp (source/VulkanApp.cpp): MainLoop, DrawFrame,    *)
(* ReCreateSwapChain and the GPU / presentation engine they run against.   *)
(* The CPU thread is one process whose position is pc; the GPU executes    *)
(* submitted command buffers and the presentation engine consumes present  *)
(* requests asynchronously.                                                *)
(***************************************************************************)
EXTENDS Integers, Sequences, FiniteSets, TLC

\* ---------------------------------------------------------------- bounds
MaxFrames == 4      \* DrawFrame calls explored per run
MaxRecreate == 2    \* calls of ReCreateSwapChain explored per call of Run
MaxDevices == 2     \* physical devices vkEnumeratePhysicalDevices can report
MaxDim    == 1      \* largest framebuffer dimension (0 = minimized axis)
NumImages == 3      \* images of a swapchain
MaxList   == 3      \* entries of a list the device reports for the surface
MaxExtent == 2      \* largest surface / window extent component that is a size
MaxLevels == 4      \* mip levels of an image
MaxTex    == 6      \* largest texture width / height drawn freely
MaxCount  == 3      \* elements of an uploaded vector
MaxImages == 3      \* largest small minImageCount / maxImageCount of a surface
UintBits  == 8      \* bits kept of a uint32_t (the checker's integers are narrower than 2^32)

\* ------------------------------------------------------ program constants
MAX_FRAMES_IN_FLIGHT == 2

Slots  == 0 .. (MAX_FRAMES_IN_FLIGHT - 1)
Dim    == 0 .. MaxDim
Images == 0 .. (NumImages - 1)

\* VkResult values vkAcquireNextImageKHR / vkQueuePresentKHR can return
VkResults == {"VK_SUCCESS", "VK_SUBOPTIMAL_KHR", "VK_ERROR_OUT_OF_DATE_KHR", "VK_ERROR_OTHER"}

\* imageIndex before the acquire has set it
NoImage == [live |-> FALSE, idx |-> 0]

VARIABLES
  pc,                        \* position of the CPU thread
  rcRet,                     \* where ReCreateSwapChain returns to
  frameNo,                   \* number of DrawFrame calls that got past their fence wait
  fbW, fbH,                  \* window framebuffer size in pixels
  width, height,             \* locals of ReCreateSwapChain
  currentFrame,
  framebufferResized,
  result,                    \* DrawFrame local: result of the last acquire
  imageIndex,                \* DrawFrame local: acquired image; live = it is an image
                             \* of the swapchain that exists now
  inFlightFences,            \* slot -> signaled
  imageAvailableSemaphores,  \* slot -> signaled
  renderFinishedSemaphores,  \* slot -> signaled
  cmdState,                  \* slot -> state of vkCommandBuffers[slot]
  cmdRec,                    \* slot -> DrawFrame call that recorded it
  ubo,                       \* slot -> DrawFrame call that wrote the uniform buffer
  presentQ,                  \* present requests queued, oldest first
  imagesHeld,                \* images of vkSwapChain acquired and not yet given back by
                             \* the presentation engine
  retiredPresents,           \* present requests at the head of presentQ that name images
                             \* of a swapchain destroyed since
  submitInfo,                \* slot -> semaphores and fence of its last submission
  swapChain,                 \* "live": vkSwapChain and swapChainFramebuffers exist;
                             \* "destroyed": the handles name destroyed objects;
                             \* "noFramebuffers": the swapchain exists, its framebuffers do not
  \* history (no effect on the program)
  trace,                     \* calls made by the last DrawFrame entered, in order
  presentResult,             \* value vkQueuePresentKHR just returned (the code drops it)
  clean,                     \* every acquire and present so far succeeded, no resize
  observed,                  \* slot -> fence seen signaled since the last submit
  recSinceSignal,            \* slot -> records since the fence last signaled
  \* object lifetimes over one call of Run
  todo,                      \* calls Run has still to make, in order
  handle,                    \* handle variable -> "null", "live" or "stale" (names a destroyed object)
  live,                      \* handle variable -> objects created through it and not destroyed
  oneShotPending,            \* a single-time command buffer is executing on vkGraphicsQueue
  enableValidationLayers,    \* the build's constant (true unless NDEBUG)
  linearBlit,                \* the device filters the texture format linearly (optimal tiling)
  physicalDeviceSelected,    \* vkPhysicalDevice != VK_NULL_HANDLE
  recreations,               \* calls of ReCreateSwapChain so far
  exit,                      \* "running", then what main returned, or "crashed"
  \* history of the lifetimes (no effect on the program)
  destroyed,                 \* handle variables in the order Cleanup destroyed through them
  doubleDestroyed,           \* handle variables passed to a destroy call while stale
  liveAtLoop,                \* live, as it was when MainLoop was entered
  lastDone,                  \* the call made last
  objs,                      \* which colour and depth objects were created and destroyed,
                             \* and the views put into swapChainFramebuffers
  \* one call of a function of VulkanApp, taken on its own
  callee,                    \* the function called ("none": no such call)
  arg,                       \* its arguments and what it reads from the device and the window
  fpc,                       \* "call", a position inside it, "returned" or "thrown"
  loc,                       \* its locals
  mem,                       \* buffer contents / image layouts it works on
  cmds,                      \* commands recorded into its single-time command buffer
  submits,                   \* command buffers it submitted to vkGraphicsQueue
  ret                        \* the value it returned

prog == <<pc, rcRet, frameNo, fbW, fbH, width, height,
          currentFrame, framebufferResized, result, imageIndex>>
gpu  == <<inFlightFences, imageAvailableSemaphores, renderFinishedSemaphores,
          cmdState, cmdRec, ubo, presentQ, imagesHeld, retiredPresents, submitInfo, swapChain>>
hist == <<trace, presentResult, clean, observed, recSinceSignal>>
life == <<todo, handle, live, oneShotPending, enableValidationLayers, linearBlit,
          physicalDeviceSelected, recreations, exit,
          destroyed, doubleDestroyed, liveAtLoop, lastDone, objs>>
call == <<callee, arg, fpc, loc, mem, cmds, submits, ret>>
vars == <<prog, gpu, hist, life, call>>

Op(name, slot) == [op |-> name, slot |-> slot]
Ops(t) == {t[i].op : i \in 1 .. Len(t)}

\* ------------------------------------------- the calls of Run, in order
\* One call: a create (vkCreate*, vkAllocate*, glfwCreateWindow) or a destroy
\* (vkDestroy*, vkFree*) through the handle variable h, or a step named by op;
\* fn is the function of Run / InitVulkan the call is made in.
Call(op, h) == [op |-> op, h |-> h, fn |-> "Run"]
Create(h) == Call("create", h)
Destroy(h) == Call("destroy", h)
In(fn, calls) == [i \in 1 .. Len(calls) |-> [calls[i] EXCEPT !.fn = fn]]

CreateBufferCalls(buffer, bufferMemory) == <<Create(buffer), Create(bufferMemory)>>
CreateImageCalls(image, imageMemory) == <<Create(image), Create(imageMemory)>>

\* vkAllocateCommandBuffers, vkBeginCommandBuffer
BeginSingleTimeCommandsCalls == <<Create("commandBuffer")>>
\* vkEndCommandBuffer, vkQueueSubmit, vkQueueWaitIdle, vkFreeCommandBuffers
EndSingleTimeCommandsCalls(f) ==
  <<Call("submit", f), Call("waitIdle", f), Destroy("commandBuffer")>>

CopyBufferCalls == BeginSingleTimeCommandsCalls \o EndSingleTimeCommandsCalls("CopyBuffer")
CopyBufferToImageCalls ==
  BeginSingleTimeCommandsCalls \o EndSingleTimeCommandsCalls("CopyBufferToImage")
TransitionImageLayoutCalls ==
  BeginSingleTimeCommandsCalls \o EndSingleTimeCommandsCalls("TransitionImageLayout")
GenerateMipmapsCalls ==
  <<Call("formatProperties", "vkPhysicalDevice")>>
  \o BeginSingleTimeCommandsCalls \o EndSingleTimeCommandsCalls("GenerateMipmaps")

CreateSwapChainCalls == <<Create("vkSwapChain")>>
CreateImageViewsCalls == <<Create("swapChainImageViews")>>
CreateFramebuffersCalls == <<Create("swapChainFramebuffers")>>
CreateColorResourcesCalls ==
  CreateImageCalls("vkColorImage", "vkColorImageMemory") \o <<Create("vkColorImageView")>>
CreateDepthResourcesCalls ==
  CreateImageCalls("vkDepthImage", "vkDepthImageMemory") \o <<Create("vkDepthImageView")>>
CreateGraphicsPipelineCalls ==
  <<Create("vertShaderModule"), Create("fragShaderModule"),
    Create("vkPipelineLayout"), Create("vkGraphicsPipeline"),
    Destroy("fragShaderModule"), Destroy("vertShaderModule")>>
CreateTextureImageCalls ==
  CreateBufferCalls("stagingBuffer", "stagingBufferMemory")
  \o CreateImageCalls("vkTextureImage", "vkTextureImageMemory")
  \o TransitionImageLayoutCalls
  \o CopyBufferToImageCalls
  \o <<Destroy("stagingBuffer"), Destroy("stagingBufferMemory")>>
  \o GenerateMipmapsCalls
CreateVertexBufferCalls ==
  CreateBufferCalls("stagingBuffer", "stagingBufferMemory")
  \o CreateBufferCalls("vkVertexBuffer", "vkVertexBufferMemory")
  \o CopyBufferCalls
  \o <<Destroy("stagingBuffer"), Destroy("stagingBufferMemory")>>
CreateIndexBufferCalls ==
  CreateBufferCalls("stagingBuffer", "stagingBufferMemory")
  \o CreateBufferCalls("vkIndexBuffer", "vkIndexBufferMemory")
  \o CopyBufferCalls
  \o <<Destroy("stagingBuffer"), Destroy("stagingBufferMemory")>>
CreateUniformBuffersCalls == CreateBufferCalls("vkUniformBuffers", "vkUniformBuffersMemory")
CreateSyncObjectsCalls ==
  <<Create("imageAvailableSemaphores"), Create("renderFinishedSemaphores"),
    Create("inFlightFences")>>

\* SetupDebugMessenger returns at once unless enableValidationLayers
SetupDebugMessengerCalls ==
  IF enableValidationLayers THEN <<Create("debugMessenger")>> ELSE <<>>

\* FindQueueFamilies(vkPhysicalDevice), then vkCreateDevice
CreateLogicalDeviceCalls == <<Call("findQueueFamilies", "vkPhysicalDevice"), Create("vkDevice")>>

InitVulkanCalls ==
  In("CreateInstance", <<Create("vkInstance")>>)
  \o In("SetupDebugMessenger", SetupDebugMessengerCalls)
  \o In("CreateSurface", <<Create("vkSurface")>>)
  \o In("SelectPhysicalDevice", <<Call("select", "vkPhysicalDevice")>>)
  \o In("CreateLogicalDevice", CreateLogicalDeviceCalls)
  \o In("CreateSwapChain", CreateSwapChainCalls)
  \o In("CreateImageViews", CreateImageViewsCalls)
  \o In("CreateRenderPass", <<Create("vkRenderPass")>>)
  \o In("CreateDescriptorSetLayout", <<Create("vkDescriptorSetLayout")>>)
  \o In("CreateGraphicsPipeline", CreateGraphicsPipelineCalls)
  \o In("CreateColorResources", CreateColorResourcesCalls)
  \o In("CreateDepthResources", CreateDepthResourcesCalls)
  \o In("CreateFramebuffers", CreateFramebuffersCalls)
  \o In("CreateCommandPool", <<Create("vkCommandPool")>>)
  \o In("CreateTextureImage", CreateTextureImageCalls)
  \o In("CreateTextureImageView", <<Create("vkTextureImageView")>>)
  \o In("CreateTextureSampler", <<Create("vkTextureSampler")>>)
  \o In("CreateColorResources", CreateColorResourcesCalls)
  \o In("CreateVertexBuffer", CreateVertexBufferCalls)
  \o In("CreateIndexBuffer", CreateIndexBufferCalls)
  \o In("CreateUniformBuffers", CreateUniformBuffersCalls)
  \o In("CreateDescriptorPool", <<Create("vkDescriptorPool")>>)
  \o In("CreateDescriptorSets", <<Create("vkDescriptorSets")>>)
  \o In("CreateCommandBuffers", <<Create("vkCommandBuffers")>>)
  \o In("CreateSyncObjects", CreateSyncObjectsCalls)

CleanupSwapChainCalls ==
  <<Destroy("vkColorImageView"), Destroy("vkColorImage"), Destroy("vkColorImageMemory"),
    Destroy("swapChainFramebuffers"), Destroy("swapChainImageViews"), Destroy("vkSwapChain")>>

ReCreateSwapChainCalls ==
  CleanupSwapChainCalls
  \o CreateSwapChainCalls
  \o CreateImageViewsCalls
  \o CreateColorResourcesCalls
  \o CreateDepthResourcesCalls
  \o CreateFramebuffersCalls

CleanupCalls ==
  CleanupSwapChainCalls
  \o <<Destroy("vkTextureSampler"), Destroy("vkTextureImageView"), Destroy("vkTextureImage"),
       Destroy("vkTextureImageMemory"),
       Destroy("vkDescriptorSetLayout"),
       Destroy("vkUniformBuffers"), Destroy("vkUniformBuffersMemory"),
       Destroy("vkDescriptorPool"),
       Destroy("vkDescriptorSetLayout"),
       Destroy("vkIndexBuffer"), Destroy("vkIndexBufferMemory"),
       Destroy("vkVertexBuffer"), Destroy("vkVertexBufferMemory"),
       Destroy("imageAvailableSemaphores"), Destroy("renderFinishedSemaphores"),
       Destroy("inFlightFences"),
       Destroy("vkCommandPool"), Destroy("vkGraphicsPipeline"), Destroy("vkPipelineLayout"),
       Destroy("vkRenderPass"), Destroy("vkDevice")>>
  \o (IF enableValidationLayers THEN <<Destroy("debugMessenger")>> ELSE <<>>)
  \o <<Destroy("vkSurface"), Destroy("vkInstance"), Destroy("window")>>

\* InitWindow(); InitVulkan(); MainLoop(); Cleanup(); then main returns
RunCalls ==
  In("InitWindow", <<Create("window")>>)
  \o InitVulkanCalls
  \o In("MainLoop", <<Call("loop", "window")>>)
  \o In("Cleanup", CleanupCalls)
  \o In("main", <<Call("return", "window")>>)

\* every handle variable the calls go through
Handles ==
  {"window", "vkInstance", "debugMessenger", "vkSurface", "vkDevice", "vkSwapChain",
   "swapChainImageViews", "vkRenderPass", "vkDescriptorSetLayout", "vertShaderModule",
   "fragShaderModule", "vkPipelineLayout", "vkGraphicsPipeline", "vkColorImage",
   "vkColorImageMemory", "vkColorImageView", "vkDepthImage", "vkDepthImageMemory",
   "vkDepthImageView", "swapChainFramebuffers", "vkCommandPool", "stagingBuffer",
   "stagingBufferMemory", "commandBuffer", "vkTextureImage", "vkTextureImageMemory",
   "vkTextureImageView", "vkTextureSampler", "vkVertexBuffer", "vkVertexBufferMemory",
   "vkIndexBuffer", "vkIndexBufferMemory", "vkUniformBuffers", "vkUniformBuffersMemory",
   "vkDescriptorPool", "vkDescriptorSets", "vkCommandBuffers",
   "imageAvailableSemaphores", "renderFinishedSemaphores", "inFlightFences"}

\* objects freed together with their pool
Owned(h) == CASE h = "vkDescriptorPool" -> {"vkDescriptorSets"}
              [] h = "vkCommandPool" -> {"vkCommandBuffers"}
              [] OTHER -> {}

\* creations whose result the code tests, throwing std::runtime_error on failure
ThrowsOnFailure ==
  Handles \ {"window", "commandBuffer", "vkSwapChain", "swapChainFramebuffers",
             "vkCommandBuffers"}

\* The effect of one create or destroy call on the handle variables and on the
\* objects alive: st = [handle, live].
NoObjects ==
  [handle |-> [h \in Handles |-> "null"],
   live   |-> [h \in Handles |-> 0]]

FreeOwned(f, h, v) ==
  IF Owned(h) = {} THEN f ELSE [f EXCEPT ![CHOOSE o \in Owned(h) : TRUE] = v]

ApplyCall(st, c) ==
  CASE c.op = "create" ->
         [handle |-> [st.handle EXCEPT ![c.h] = "live"],
          live   |-> [st.live EXCEPT ![c.h] = @ + 1]]
    [] c.op = "destroy" /\ st.handle[c.h] = "live" ->
         [handle |-> FreeOwned([st.handle EXCEPT ![c.h] = "stale"], c.h, "stale"),
          live   |-> FreeOwned([st.live EXCEPT ![c.h] = @ - 1], c.h, 0)]
    [] OTHER -> st

\* What InitWindow and InitVulkan leave behind: the locals they created are
\* destroyed again, every member handle names a live object, and the colour
\* image, memory and view exist twice (CreateColorResources is called twice).
Locals ==
  {"stagingBuffer", "stagingBufferMemory", "commandBuffer",
   "vertShaderModule", "fragShaderModule"}
CreatedTwice == {"vkColorImage", "vkColorImageMemory", "vkColorImageView"}
AfterInitVulkan ==
  [handle |-> [h \in Handles |->
                 IF h \in Locals THEN "stale"
                 ELSE IF h = "debugMessenger" /\ ~enableValidationLayers THEN "null"
                 ELSE "live"],
   live   |-> [h \in Handles |->
                 IF h \in Locals THEN 0
                 ELSE IF h = "debugMessenger" /\ ~enableValidationLayers THEN 0
                 ELSE IF h \in CreatedTwice THEN 2
                 ELSE 1]]

\* The objects made through the colour and depth handle variables, numbered in
\* the order of their creation: created[h] counts them (the handle variable
\* holds the last one), gone holds the destroyed ones, and attachments holds
\* the views CreateFramebuffers copied into framebufferInfo.pAttachments.
Tracked == {"vkColorImage", "vkColorImageView", "vkDepthImageView"}
NoneTracked ==
  [created |-> [h \in Tracked |-> 0], gone |-> {},
   attachments |-> [color |-> 0, depth |-> 0]]
Attachments(o) ==
  [color |-> o.created["vkColorImageView"], depth |-> o.created["vkDepthImageView"]]

Track(o, c) ==
  CASE c.op = "create" /\ c.h \in Tracked ->
         [o EXCEPT !.created[c.h] = @ + 1]
    [] c.op = "create" /\ c.h = "swapChainFramebuffers" ->
         [o EXCEPT !.attachments = Attachments(o)]
    [] c.op = "destroy" /\ c.h \in Tracked ->
         [o EXCEPT !.gone = @ \cup {<<c.h, o.created[c.h]>>}]
    [] OTHER -> o

\* after InitVulkan: CreateFramebuffers ran between the two calls of
\* CreateColorResources
TrackedAfterInitVulkan ==
  [created |-> [h \in Tracked |-> IF h \in CreatedTwice THEN 2 ELSE 1], gone |-> {},
   attachments |-> [color |-> 1, depth |-> 1]]

\* ----------------------------------------------------------------- Init
\* State when InitVulkan has returned: CreateSyncObjects made the fences
\* signaled, the window is 800x600 (non-zero), nothing is submitted.
\* no function is called on its own
NoCall ==
  /\ callee = "none" /\ arg = <<>> /\ fpc = "returned"
  /\ loc = <<>> /\ mem = <<>> /\ cmds = <<>> /\ submits = 0 /\ ret = "none"

FrameInit ==
  /\ pc = "loop" /\ rcRet = "loop" /\ frameNo = 0
  /\ fbW = MaxDim /\ fbH = MaxDim
  /\ width = 0 /\ height = 0
  /\ currentFrame = 0
  /\ framebufferResized = FALSE
  /\ result = "none" /\ imageIndex = NoImage
  /\ inFlightFences = [k \in Slots |-> TRUE]
  /\ imageAvailableSemaphores = [k \in Slots |-> FALSE]
  /\ renderFinishedSemaphores = [k \in Slots |-> FALSE]
  /\ cmdState = [k \in Slots |-> "initial"]
  /\ cmdRec = [k \in Slots |-> 0]
  /\ ubo = [k \in Slots |-> 0]
  /\ presentQ = <<>>
  /\ imagesHeld = 0 /\ retiredPresents = 0
  /\ submitInfo = [k \in Slots |-> [wait |-> k, signal |-> k, fence |-> k]]
  /\ swapChain = "live"
  /\ trace = <<>> /\ presentResult = "none"
  /\ clean = TRUE
  /\ observed = [k \in Slots |-> FALSE]
  /\ recSinceSignal = [k \in Slots |-> 0]

\* The objects alive when InitVulkan has returned and MainLoop is entered.
Init ==
  /\ FrameInit
  /\ NoCall
  /\ enableValidationLayers = TRUE
  /\ linearBlit = TRUE
  /\ physicalDeviceSelected = TRUE
  /\ todo = In("MainLoop", <<Call("loop", "window")>>)
  /\ handle = AfterInitVulkan.handle
  /\ live = AfterInitVulkan.live
  /\ liveAtLoop = AfterInitVulkan.live
  /\ oneShotPending = FALSE
  /\ recreations = 0
  /\ exit = "running"
  /\ destroyed = <<>> /\ doubleDestroyed = {}
  /\ lastDone = InitVulkanCalls[Len(InitVulkanCalls)]
  /\ objs = TrackedAfterInitVulkan

\* ------------------------------------------------------- window events
\* What one call of glfwPollEvents / glfwWaitEvents can deliver: nothing that
\* the program looks at (this includes a close request, which only
\* glfwWindowShouldClose reads), or a framebuffer size change, for which GLFW
\* calls FramebufferResizeCallback.
Events == {[kind |-> "other", w |-> 0, h |-> 0]}
          \cup {[kind |-> "resize", w |-> w, h |-> h] : w \in Dim, h \in Dim}

\* FramebufferResizeCallback: sets the flag, ignores the size it is given.
FramebufferResizeCallback(flag) == TRUE

Deliver(ev) ==
  /\ fbW' = IF ev.kind = "resize" THEN ev.w ELSE fbW
  /\ fbH' = IF ev.kind = "resize" THEN ev.h ELSE fbH
  /\ framebufferResized' = IF ev.kind = "resize"
                           THEN FramebufferResizeCallback(framebufferResized)
                           ELSE framebufferResized
  /\ clean' = (clean /\ ev.kind # "resize")

\* ---------------------------------------------------- blocking conditions
\* vkWaitForFences(vkDevice, 1, &inFlightFences[currentFrame], VK_TRUE, UINT64_MAX):
\* the fence waited for, and whether the call waits without a time limit.
WaitFenceOtherSlot == (currentFrame + 1) % MAX_FRAMES_IN_FLIGHT
WaitFenceSlot == currentFrame

WaitTimeoutZero == FALSE
WaitUnbounded == TRUE

\* vkDeviceWaitIdle returns once no submitted command buffer is pending.
DeviceIdleNoWait == TRUE
DeviceIdle == \A k \in Slots : cmdState[k] # "pending"

\* index handed to UpdateUniformBuffer
UniformIndexImage == imageIndex.idx
UniformIndex == currentFrame

\* index of the descriptor set bound by RecordCommandBuffer
DescriptorIndex == currentFrame

\* the slot DrawFrame moves to when it has presented
NextFrame(cf) == (cf + 1) % MAX_FRAMES_IN_FLIGHT

\* ------------------------------------------------------------- MainLoop
\* while (!glfwWindowShouldClose(window))
\* The close flag is set by the window system and read nowhere else, so the
\* test reads either value; no close request precedes the first frame.
MainLoopTest ==
  /\ pc = "loop"
  /\ \E windowShouldClose \in BOOLEAN :
       /\ windowShouldClose => frameNo > 0
       /\ ~windowShouldClose => frameNo < MaxFrames
       /\ pc' = IF windowShouldClose THEN "mainIdle" ELSE "poll"
  /\ UNCHANGED <<rcRet, frameNo, fbW, fbH, width, height,
                 currentFrame, framebufferResized, result, imageIndex>>
  /\ UNCHANGED <<gpu, hist>>
  /\ UNCHANGED life
  /\ UNCHANGED call

\* glfwPollEvents(); DrawFrame is called next
PollEvents ==
  /\ pc = "poll"
  /\ \E ev \in Events : Deliver(ev)
  /\ pc' = "wait"
  /\ UNCHANGED <<rcRet, frameNo, width, height, currentFrame, result, imageIndex>>
  /\ UNCHANGED <<trace, presentResult, observed, recSinceSignal>>
  /\ UNCHANGED gpu
  /\ UNCHANGED life
  /\ UNCHANGED call

\* vkDeviceWaitIdle after the loop
MainDeviceWaitIdle ==
  /\ pc = "mainIdle"
  /\ DeviceIdle
  /\ pc' = "cleanup"
  /\ UNCHANGED <<rcRet, frameNo, fbW, fbH, width, height,
                 currentFrame, framebufferResized, result, imageIndex>>
  /\ UNCHANGED <<gpu, hist>>
  /\ UNCHANGED life
  /\ UNCHANGED call

\* Cleanup(), called by Run when MainLoop has returned: CleanupSwapChain and
\* the destruction of everything else, the per-slot buffers, semaphores and
\* fences included. (SpecRun follows it call by call.)
Cleanup ==
  /\ pc = "cleanup"
  /\ swapChain' = "destroyed"
  /\ pc' = "exit"
  /\ UNCHANGED <<rcRet, frameNo, fbW, fbH, width, height,
                 currentFrame, framebufferResized, result, imageIndex>>
  /\ UNCHANGED <<inFlightFences, imageAvailableSemaphores, renderFinishedSemaphores,
                 cmdState, cmdRec, ubo, presentQ, imagesHeld, retiredPresents, submitInfo>>
  /\ UNCHANGED <<hist, life, call>>

\* ------------------------------------------------------------ DrawFrame
\* the semaphore handed to vkAcquireNextImageKHR
AcquireSemaphore == currentFrame

\* waitSemaphores[] = { imageAvailableSemaphores[currentFrame] }
SubmitWaitSemaphore == currentFrame

\* signalSemaphores[] = { renderFinishedSemaphores[currentFrame] }
SubmitSignalSemaphore == currentFrame

\* the fence handed to vkQueueSubmit
SubmitFence == currentFrame

\* the render-finished semaphore of the other slot
PresentWaitOtherSlot == (currentFrame + 1) % MAX_FRAMES_IN_FLIGHT

\* presentInfo.pWaitSemaphores = signalSemaphores
PresentWaitSemaphore == SubmitSignalSemaphore

WaitForFences ==
  /\ pc = "wait"
  /\ WaitUnbounded => inFlightFences[WaitFenceSlot]
  /\ pc' = "acquire"
  /\ frameNo' = frameNo + 1
  /\ observed' = [observed EXCEPT ![WaitFenceSlot] = inFlightFences[WaitFenceSlot]]
  /\ trace' = <<Op("wait", WaitFenceSlot)>>
  /\ UNCHANGED <<rcRet, fbW, fbH, width, height,
                 currentFrame, framebufferResized, result, imageIndex>>
  /\ UNCHANGED <<presentResult, clean, recSinceSignal>>
  /\ UNCHANGED gpu
  /\ UNCHANGED life
  /\ UNCHANGED call

\* vkAcquireNextImageKHR is called with the timeout UINT64_MAX: it hands out
\* an image only when the presentation engine holds fewer than all of them,
\* and waits until then
ImageAvailable == imagesHeld < NumImages

\* The acquire step with the fence reset placed before it.
AcquireAfterReset(r) ==
  /\ result' = r
  /\ clean' = (clean /\ r = "VK_SUCCESS")
  /\ trace' = Append(trace, Op("acquire", AcquireSemaphore))
  /\ inFlightFences' = [inFlightFences EXCEPT ![currentFrame] = FALSE]
  /\ IF r \in {"VK_SUCCESS", "VK_SUBOPTIMAL_KHR"}
     THEN /\ ImageAvailable
          /\ imagesHeld' = imagesHeld + 1
          /\ \E i \in Images : imageIndex' = [live |-> swapChain # "destroyed", idx |-> i]
          /\ imageAvailableSemaphores' = [imageAvailableSemaphores EXCEPT ![AcquireSemaphore] = TRUE]
          /\ pc' = "update" /\ UNCHANGED rcRet
     ELSE /\ UNCHANGED <<imageIndex, imageAvailableSemaphores, imagesHeld>>
          /\ IF r = "VK_ERROR_OUT_OF_DATE_KHR"
             THEN pc' = "rcGet" /\ rcRet' = "loop"
             ELSE pc' = "thrown" /\ UNCHANGED rcRet

\* vkAcquireNextImageKHR and the two tests of its result
Acquire(r) ==
  /\ result' = r
  /\ clean' = (clean /\ r = "VK_SUCCESS")
  /\ trace' = Append(trace, Op("acquire", AcquireSemaphore))
  /\ UNCHANGED inFlightFences
  /\ IF r \in {"VK_SUCCESS", "VK_SUBOPTIMAL_KHR"}
     THEN /\ ImageAvailable
          /\ imagesHeld' = imagesHeld + 1
          /\ \E i \in Images : imageIndex' = [live |-> swapChain # "destroyed", idx |-> i]
          /\ imageAvailableSemaphores' = [imageAvailableSemaphores EXCEPT ![AcquireSemaphore] = TRUE]
          /\ pc' = "update" /\ UNCHANGED rcRet
     ELSE /\ UNCHANGED <<imageIndex, imageAvailableSemaphores, imagesHeld>>
          /\ IF r = "VK_ERROR_OUT_OF_DATE_KHR"
             THEN pc' = "rcGet" /\ rcRet' = "loop"      \* ReCreateSwapChain(); return;
             ELSE pc' = "thrown" /\ UNCHANGED rcRet     \* throw std::runtime_error

\* the call returning r
AcquireReturns(r) ==
  /\ pc = "acquire"
  /\ Acquire(r)
  /\ UNCHANGED <<frameNo, fbW, fbH, width, height,
                 currentFrame, framebufferResized>>
  /\ UNCHANGED <<renderFinishedSemaphores, cmdState, cmdRec, ubo, presentQ,
                 retiredPresents, submitInfo, swapChain>>
  /\ UNCHANGED <<presentResult, observed, recSinceSignal>>
  /\ UNCHANGED life
  /\ UNCHANGED call

AcquireNextImage == \E r \in VkResults : AcquireReturns(r)

\* UpdateUniformBuffer(currentFrame): memcpy into vkUniformBuffersMapped[currentImage]
UpdateUniformBuffer ==
  /\ pc = "update"
  /\ ubo' = [ubo EXCEPT ![UniformIndex] = frameNo]
  /\ trace' = Append(trace, Op("update", UniformIndex))
  /\ pc' = "resetFence"
  /\ UNCHANGED <<rcRet, frameNo, fbW, fbH, width, height,
                 currentFrame, framebufferResized, result, imageIndex>>
  /\ UNCHANGED <<inFlightFences, imageAvailableSemaphores, renderFinishedSemaphores,
                 cmdState, cmdRec, presentQ, imagesHeld, retiredPresents, submitInfo, swapChain>>
  /\ UNCHANGED <<presentResult, clean, observed, recSinceSignal>>
  /\ UNCHANGED life
  /\ UNCHANGED call

\* vkResetFences(&inFlightFences[currentFrame])
ResetFences ==
  /\ pc = "resetFence"
  /\ inFlightFences' = [inFlightFences EXCEPT ![currentFrame] = FALSE]
  /\ trace' = Append(trace, Op("resetFence", currentFrame))
  /\ pc' = "record"
  /\ UNCHANGED <<rcRet, frameNo, fbW, fbH, width, height,
                 currentFrame, framebufferResized, result, imageIndex>>
  /\ UNCHANGED <<imageAvailableSemaphores, renderFinishedSemaphores,
                 cmdState, cmdRec, ubo, presentQ, imagesHeld, retiredPresents, submitInfo, swapChain>>
  /\ UNCHANGED <<presentResult, clean, observed, recSinceSignal>>
  /\ UNCHANGED life
  /\ UNCHANGED call

\* vkResetCommandBuffer + RecordCommandBuffer(vkCommandBuffers[currentFrame], imageIndex);
\* RecordCommandBuffer throws when vkBeginCommandBuffer or vkEndCommandBuffer fails
RecordCommandBuffer ==
  /\ pc = "record"
  /\ \E ok \in BOOLEAN :
       /\ cmdState' = [cmdState EXCEPT ![currentFrame] = IF ok THEN "executable" ELSE "invalid"]
       /\ pc' = IF ok THEN "submit" ELSE "thrown"
  /\ cmdRec' = [cmdRec EXCEPT ![currentFrame] = frameNo]
  /\ recSinceSignal' = [recSinceSignal EXCEPT ![currentFrame] = @ + 1]
  /\ trace' = trace \o <<Op("record", currentFrame), Op("bindDescriptorSets", DescriptorIndex)>>
  /\ UNCHANGED <<rcRet, frameNo, fbW, fbH, width, height,
                 currentFrame, framebufferResized, result, imageIndex>>
  /\ UNCHANGED <<inFlightFences, imageAvailableSemaphores, renderFinishedSemaphores,
                 ubo, presentQ, imagesHeld, retiredPresents, submitInfo, swapChain>>
  /\ UNCHANGED <<presentResult, clean, observed>>
  /\ UNCHANGED life
  /\ UNCHANGED call

\* vkQueueSubmit(vkGraphicsQueue, 1, &submitInfo, inFlightFences[currentFrame])
QueueSubmit ==
  /\ pc = "submit"
  /\ \E ok \in BOOLEAN :
       IF ok
       THEN /\ cmdState' = [cmdState EXCEPT ![currentFrame] = "pending"]
            /\ submitInfo' = [submitInfo EXCEPT ![currentFrame] =
                                [wait |-> SubmitWaitSemaphore,
                                 signal |-> SubmitSignalSemaphore,
                                 fence |-> SubmitFence]]
            /\ observed' = [observed EXCEPT ![currentFrame] = FALSE]
            /\ trace' = Append(trace, Op("submit", currentFrame))
            /\ pc' = "present"
       ELSE /\ pc' = "thrown"
            /\ UNCHANGED <<cmdState, submitInfo, observed, trace>>
  /\ UNCHANGED <<rcRet, frameNo, fbW, fbH, width, height,
                 currentFrame, framebufferResized, result, imageIndex>>
  /\ UNCHANGED <<inFlightFences, imageAvailableSemaphores, renderFinishedSemaphores,
                 cmdRec, ubo, presentQ, imagesHeld, retiredPresents, swapChain>>
  /\ UNCHANGED <<presentResult, clean, recSinceSignal>>
  /\ UNCHANGED life
  /\ UNCHANGED call

\* vkQueuePresentKHR(vkPresentQueue, &presentInfo); its return value is dropped
QueuePresent ==
  /\ pc = "present"
  /\ \E r \in VkResults :
       /\ presentResult' = r
       /\ clean' = (clean /\ r = "VK_SUCCESS")
  /\ presentQ' = Append(presentQ, [frame |-> frameNo, slot |-> currentFrame,
                                   wait |-> PresentWaitSemaphore])
  /\ trace' = Append(trace, Op("present", currentFrame))
  /\ pc' = "check"
  /\ UNCHANGED <<rcRet, frameNo, fbW, fbH, width, height,
                 currentFrame, framebufferResized, result, imageIndex>>
  /\ UNCHANGED <<inFlightFences, imageAvailableSemaphores, renderFinishedSemaphores,
                 cmdState, cmdRec, ubo, imagesHeld, retiredPresents, submitInfo, swapChain>>
  /\ UNCHANGED <<observed, recSinceSignal>>
  /\ UNCHANGED life
  /\ UNCHANGED call

\* the value the test after the present looks at: `result`, set by the acquire
CheckedResult == result

NeedsRecreateNoFlag ==
  CheckedResult = "VK_ERROR_OUT_OF_DATE_KHR" \/ CheckedResult = "VK_SUBOPTIMAL_KHR"
NeedsRecreateNoSuboptimal ==
  CheckedResult = "VK_ERROR_OUT_OF_DATE_KHR" \/ framebufferResized
NeedsRecreate ==
  CheckedResult = "VK_ERROR_OUT_OF_DATE_KHR" \/ CheckedResult = "VK_SUBOPTIMAL_KHR" \/ framebufferResized

\* if (result == OUT_OF_DATE || result == SUBOPTIMAL || framebufferResized) {...}
\* else if (result != VK_SUCCESS) throw
PresentCheck ==
  /\ pc = "check"
  /\ IF NeedsRecreate
     THEN /\ framebufferResized' = FALSE
          /\ pc' = "rcGet" /\ rcRet' = "advance"
     ELSE /\ pc' = IF CheckedResult # "VK_SUCCESS" THEN "thrown" ELSE "advance"
          /\ UNCHANGED <<framebufferResized, rcRet>>
  /\ imageIndex' = NoImage          \* not read after the present
  /\ presentResult' = "none"
  /\ UNCHANGED <<frameNo, fbW, fbH, width, height, currentFrame, result>>
  /\ UNCHANGED <<trace, clean, observed, recSinceSignal>>
  /\ UNCHANGED gpu
  /\ UNCHANGED life
  /\ UNCHANGED call

\* currentFrame = (currentFrame + 1) % MAX_FRAMES_IN_FLIGHT; DrawFrame returns
Advance ==
  /\ pc = "advance"
  /\ currentFrame' = NextFrame(currentFrame)
  /\ pc' = "loop"
  /\ UNCHANGED <<rcRet, frameNo, fbW, fbH, width, height,
                 framebufferResized, result, imageIndex>>
  /\ UNCHANGED <<gpu, hist>>
  /\ UNCHANGED life
  /\ UNCHANGED call

\* ---------------------------------------------------- ReCreateSwapChain
\* int width = 0, height = 0; glfwGetFramebufferSize(window, &width, &height);
RcGetFramebufferSize ==
  /\ pc = "rcGet"
  /\ width' = fbW /\ height' = fbH
  /\ pc' = "rcTest"
  /\ UNCHANGED <<rcRet, frameNo, fbW, fbH,
                 currentFrame, framebufferResized, result, imageIndex>>
  /\ UNCHANGED <<gpu, hist>>
  /\ UNCHANGED life
  /\ UNCHANGED call

\* while (width == 0 || height == 0)
RcLoopTest ==
  /\ pc = "rcTest"
  /\ pc' = IF width = 0 \/ height = 0 THEN "rcBody" ELSE "rcIdle"
  /\ UNCHANGED <<rcRet, frameNo, fbW, fbH, width, height,
                 currentFrame, framebufferResized, result, imageIndex>>
  /\ UNCHANGED <<gpu, hist>>
  /\ UNCHANGED life
  /\ UNCHANGED call

\* { glfwGetFramebufferSize(window, &width, &height); glfwWaitEvents(); }
RcLoopBody ==
  /\ pc = "rcBody"
  /\ width' = fbW /\ height' = fbH
  /\ \E ev \in Events : Deliver(ev)
  /\ pc' = "rcTest"
  /\ UNCHANGED <<rcRet, frameNo, currentFrame, result, imageIndex>>
  /\ UNCHANGED <<trace, presentResult, observed, recSinceSignal>>
  /\ UNCHANGED gpu
  /\ UNCHANGED life
  /\ UNCHANGED call

\* vkDeviceWaitIdle(vkDevice)
RcDeviceWaitIdle ==
  /\ pc = "rcIdle"
  /\ DeviceIdle
  /\ pc' = "rcCleanup"
  /\ UNCHANGED <<rcRet, frameNo, fbW, fbH, width, height,
                 currentFrame, framebufferResized, result, imageIndex>>
  /\ UNCHANGED <<gpu, hist>>
  /\ UNCHANGED life
  /\ UNCHANGED call

\* CleanupSwapChain(): framebuffers, image views, colour image, swapchain destroyed
CleanupSwapChain ==
  /\ pc = "rcCleanup"
  /\ swapChain' = "destroyed"
  /\ imagesHeld' = 0
  /\ retiredPresents' = Len(presentQ)
  /\ imageIndex' = [imageIndex EXCEPT !.live = FALSE]
  /\ trace' = Append(trace, Op("recreate", currentFrame))
  /\ pc' = "rcCreate"
  /\ UNCHANGED <<rcRet, frameNo, fbW, fbH, width, height,
                 currentFrame, framebufferResized, result>>
  /\ UNCHANGED <<inFlightFences, imageAvailableSemaphores, renderFinishedSemaphores,
                 cmdState, cmdRec, ubo, presentQ, submitInfo>>
  /\ UNCHANGED <<presentResult, clean, observed, recSinceSignal>>
  /\ UNCHANGED life
  /\ UNCHANGED call

\* CreateSwapChain(); CreateImageViews(); CreateColorResources();
\* CreateDepthResources(); CreateFramebuffers(); ReCreateSwapChain returns.
\* A failing vkCreateSwapchainKHR or vkCreateFramebuffer is printed and the
\* program goes on with the handle it had; a failing image or image-view
\* creation throws.
CreateOutcomes == {"created", "swapchainFailed", "framebufferFailed", "throws"}

RcCreate ==
  /\ pc = "rcCreate"
  /\ \E o \in CreateOutcomes :
       /\ swapChain' = CASE o = "created" -> "live"
                         [] o = "framebufferFailed" -> "noFramebuffers"
                         [] OTHER -> "destroyed"
       /\ pc' = IF o = "throws" THEN "thrown" ELSE rcRet
  /\ trace' = Append(trace, Op("create", currentFrame))
  /\ width' = 0 /\ height' = 0
  /\ UNCHANGED <<rcRet, frameNo, fbW, fbH,
                 currentFrame, framebufferResized, result, imageIndex>>
  /\ UNCHANGED <<inFlightFences, imageAvailableSemaphores, renderFinishedSemaphores,
                 cmdState, cmdRec, ubo, presentQ, imagesHeld, retiredPresents, submitInfo>>
  /\ UNCHANGED <<presentResult, clean, observed, recSinceSignal>>
  /\ UNCHANGED life
  /\ UNCHANGED call

\* ------------------------------------------------------------------ GPU
\* The graphics queue runs slot k's submission: it waits for the slot's
\* image-available semaphore, executes the command buffer, then signals the
\* slot's render-finished semaphore and its fence.
GpuExecute(k) ==
  /\ cmdState[k] = "pending"
  /\ imageAvailableSemaphores[submitInfo[k].wait]
  /\ imageAvailableSemaphores' = [imageAvailableSemaphores EXCEPT ![submitInfo[k].wait] = FALSE]
  /\ renderFinishedSemaphores' = [renderFinishedSemaphores EXCEPT ![submitInfo[k].signal] = TRUE]
  /\ inFlightFences' = [inFlightFences EXCEPT ![submitInfo[k].fence] = TRUE]
  /\ cmdState' = [cmdState EXCEPT ![k] = "executable"]
  /\ recSinceSignal' = [recSinceSignal EXCEPT ![submitInfo[k].fence] = 0]
  /\ UNCHANGED <<cmdRec, ubo, presentQ, imagesHeld, retiredPresents, submitInfo, swapChain>>
  /\ UNCHANGED <<trace, presentResult, clean, observed>>
  /\ UNCHANGED prog
  /\ UNCHANGED life
  /\ UNCHANGED call

\* The presentation engine takes the oldest present request once the
\* semaphore k it waits on is signaled, and gives the request's image back
\* to its swapchain.
PresentExecute(k) ==
  /\ presentQ # <<>>
  /\ Head(presentQ).wait = k
  /\ renderFinishedSemaphores[k]
  /\ presentQ' = Tail(presentQ)
  /\ IF retiredPresents > 0
     THEN retiredPresents' = retiredPresents - 1 /\ UNCHANGED imagesHeld
     ELSE imagesHeld' = imagesHeld - 1 /\ UNCHANGED retiredPresents
  /\ renderFinishedSemaphores' = [renderFinishedSemaphores EXCEPT ![k] = FALSE]
  /\ UNCHANGED <<inFlightFences, imageAvailableSemaphores, cmdState, cmdRec, ubo,
                 submitInfo, swapChain>>
  /\ UNCHANGED <<prog, hist>>
  /\ UNCHANGED life
  /\ UNCHANGED call

GpuStep == \E k \in Slots : GpuExecute(k)
PresentStep == \E k \in Slots : PresentExecute(k)

Next ==
  \/ MainLoopTest
  \/ PollEvents
  \/ MainDeviceWaitIdle
  \/ Cleanup
  \/ WaitForFences
  \/ AcquireNextImage
  \/ UpdateUniformBuffer
  \/ ResetFences
  \/ RecordCommandBuffer
  \/ QueueSubmit
  \/ QueuePresent
  \/ PresentCheck
  \/ Advance
  \/ RcGetFramebufferSize
  \/ RcLoopTest
  \/ RcLoopBody
  \/ RcDeviceWaitIdle
  \/ CleanupSwapChain
  \/ RcCreate
  \/ GpuStep
  \/ PresentStep

Spec == Init /\ [][Next]_vars

\* The frame loop with a scheduler: the GPU executes every submission in the
\* end, and the CPU thread returns from vkWaitForFences once the fence is
\* signaled.
SpecLive ==
  /\ Init /\ [][Next]_vars
  /\ \A k \in Slots : WF_vars(GpuExecute(k))
  /\ WF_vars(WaitForFences)

\* ------------------------------------------------------------------ Run
\* main: VulkanApp app; app.Run(); followed call by call.
InitRun ==
  /\ FrameInit
  /\ NoCall
  /\ enableValidationLayers \in BOOLEAN
  /\ linearBlit \in BOOLEAN
  /\ physicalDeviceSelected = FALSE
  /\ todo = RunCalls
  /\ handle = NoObjects.handle
  /\ live = NoObjects.live
  /\ liveAtLoop = NoObjects.live
  /\ oneShotPending = FALSE
  /\ recreations = 0
  /\ exit = "running"
  /\ destroyed = <<>> /\ doubleDestroyed = {}
  /\ lastDone = Call("main", "window")
  /\ objs = NoneTracked

Running == exit = "running" /\ todo # <<>>

\* an exception leaves Run; main catches it and returns EXIT_FAILURE
Throw ==
  /\ exit' = "EXIT_FAILURE"
  /\ todo' = <<>>

\* the process dies
Crash ==
  /\ exit' = "crashed"
  /\ todo' = <<>>

\* vkCreate* / vkAllocate* / glfwCreateWindow
CreateObject ==
  /\ Running /\ Head(todo).op = "create"
  /\ \E ok \in BOOLEAN :
       /\ ~ok => Head(todo).h \in ThrowsOnFailure
       /\ IF ok
          THEN /\ LET st == ApplyCall([handle |-> handle, live |-> live], Head(todo))
                  IN handle' = st.handle /\ live' = st.live
               /\ objs' = Track(objs, Head(todo))
               /\ todo' = Tail(todo)
               /\ UNCHANGED exit
          ELSE /\ Throw
               /\ UNCHANGED <<handle, live, objs>>
  /\ lastDone' = Head(todo)
  /\ UNCHANGED <<oneShotPending, enableValidationLayers, linearBlit, physicalDeviceSelected,
                 recreations, destroyed, doubleDestroyed, liveAtLoop>>
  /\ UNCHANGED <<prog, gpu, hist>>
  /\ UNCHANGED call

\* vkDestroy* / vkFree* / glfwDestroyWindow. Destroying through a handle that
\* names a destroyed object is undefined: the process may go on or die.
DestroyObject ==
  /\ Running /\ Head(todo).op = "destroy"
  /\ LET c == Head(todo)
         st == ApplyCall([handle |-> handle, live |-> live], c)
     IN /\ handle' = st.handle /\ live' = st.live
        /\ destroyed' = IF c.fn = "Cleanup" THEN Append(destroyed, c.h) ELSE destroyed
        /\ IF handle[c.h] = "stale"
           THEN /\ doubleDestroyed' = doubleDestroyed \cup {c.h}
                /\ \/ todo' = Tail(todo) /\ UNCHANGED exit
                   \/ Crash
           ELSE /\ UNCHANGED <<doubleDestroyed, exit>>
                /\ todo' = Tail(todo)
  /\ lastDone' = Head(todo)
  /\ UNCHANGED <<oneShotPending, enableValidationLayers, linearBlit, physicalDeviceSelected,
                 recreations, liveAtLoop>>
  /\ objs' = Track(objs, Head(todo))
  /\ UNCHANGED <<prog, gpu, hist>>
  /\ UNCHANGED call

\* SelectPhysicalDevice: devices[i] = IsDeviceSuitable(device i). Without a
\* suitable device (or with no device) it prints a message and returns.
AnySuitable(devices) == \E i \in DOMAIN devices : devices[i]

SelectPhysicalDevice ==
  /\ Running /\ Head(todo).op = "select"
  /\ \E deviceCount \in 0 .. MaxDevices :
       \E devices \in [1 .. deviceCount -> BOOLEAN] :
          physicalDeviceSelected' = AnySuitable(devices)
  /\ todo' = Tail(todo)
  /\ lastDone' = Head(todo)
  /\ UNCHANGED <<handle, live, oneShotPending, enableValidationLayers, linearBlit, recreations, exit,
                 destroyed, doubleDestroyed, liveAtLoop>>
  /\ UNCHANGED objs
  /\ UNCHANGED <<prog, gpu, hist>>
  /\ UNCHANGED call

\* CreateLogicalDevice: FindQueueFamilies(vkPhysicalDevice). With
\* VK_NULL_HANDLE the Vulkan calls made on it are undefined: the process may
\* die, an exception may be thrown (an empty optional's value()), or it goes on.
FindQueueFamilies ==
  /\ Running /\ Head(todo).op = "findQueueFamilies"
  /\ IF physicalDeviceSelected
     THEN todo' = Tail(todo) /\ UNCHANGED exit
     ELSE \/ todo' = Tail(todo) /\ UNCHANGED exit
          \/ Throw
          \/ Crash
  /\ lastDone' = Head(todo)
  /\ UNCHANGED <<handle, live, oneShotPending, enableValidationLayers, linearBlit,
                 physicalDeviceSelected, recreations,
                 destroyed, doubleDestroyed, liveAtLoop>>
  /\ UNCHANGED objs
  /\ UNCHANGED <<prog, gpu, hist>>
  /\ UNCHANGED call

\* the texture format is taken to be filterable without asking the device
LinearBlitAssumed == TRUE

\* formatProperties.optimalTilingFeatures & VK_FORMAT_FEATURE_SAMPLED_IMAGE_FILTER_LINEAR_BIT
LinearBlitSupported == linearBlit

\* GenerateMipmaps: vkGetPhysicalDeviceFormatProperties and the test that
\* throws. On VK_NULL_HANDLE the query is undefined.
CheckLinearBlit ==
  /\ Running /\ Head(todo).op = "formatProperties"
  /\ IF physicalDeviceSelected
     THEN IF LinearBlitSupported
          THEN todo' = Tail(todo) /\ UNCHANGED exit
          ELSE Throw
     ELSE \/ todo' = Tail(todo) /\ UNCHANGED exit
          \/ Throw
          \/ Crash
  /\ lastDone' = Head(todo)
  /\ UNCHANGED <<handle, live, oneShotPending, enableValidationLayers, linearBlit,
                 physicalDeviceSelected, recreations,
                 destroyed, doubleDestroyed, liveAtLoop>>
  /\ UNCHANGED objs
  /\ UNCHANGED <<prog, gpu, hist>>
  /\ UNCHANGED call

\* EndSingleTimeCommands: vkQueueSubmit(vkGraphicsQueue, 1, &submitInfo, VK_NULL_HANDLE);
\* its result is not looked at
SingleTimeSubmit ==
  /\ Running /\ Head(todo).op = "submit"
  /\ \E ok \in BOOLEAN : oneShotPending' = ok
  /\ todo' = Tail(todo)
  /\ lastDone' = Head(todo)
  /\ UNCHANGED <<handle, live, enableValidationLayers, linearBlit, physicalDeviceSelected,
                 recreations, exit, destroyed, doubleDestroyed, liveAtLoop>>
  /\ UNCHANGED objs
  /\ UNCHANGED <<prog, gpu, hist>>
  /\ UNCHANGED call

\* vkQueueWaitIdle(vkGraphicsQueue) returns once the queue has nothing to run
QueueIdleNoWait == TRUE
QueueIdle == ~oneShotPending

QueueWaitIdle ==
  /\ Running /\ Head(todo).op = "waitIdle"
  /\ QueueIdle
  /\ todo' = Tail(todo)
  /\ lastDone' = Head(todo)
  /\ UNCHANGED <<handle, live, oneShotPending, enableValidationLayers, linearBlit,
                 physicalDeviceSelected, recreations, exit,
                 destroyed, doubleDestroyed, liveAtLoop>>
  /\ UNCHANGED objs
  /\ UNCHANGED <<prog, gpu, hist>>
  /\ UNCHANGED call

\* the graphics queue finishes the single-time command buffer
SingleTimeExecute ==
  /\ oneShotPending
  /\ oneShotPending' = FALSE
  /\ UNCHANGED <<todo, handle, live, enableValidationLayers, linearBlit, physicalDeviceSelected,
                 recreations, exit, destroyed, doubleDestroyed, liveAtLoop,
                 lastDone>>
  /\ UNCHANGED objs
  /\ UNCHANGED <<prog, gpu, hist>>
  /\ UNCHANGED call

\* MainLoop as far as objects go: DrawFrame creates and destroys only through
\* ReCreateSwapChain, which it calls any number of times before the window closes.
MainLoopRun ==
  /\ Running /\ Head(todo).op = "loop"
  /\ \/ /\ recreations < MaxRecreate
        /\ recreations' = recreations + 1
        /\ todo' = In("ReCreateSwapChain", ReCreateSwapChainCalls) \o todo
     \/ /\ todo' = Tail(todo)
        /\ UNCHANGED recreations
  /\ liveAtLoop' = IF recreations = 0 THEN live ELSE liveAtLoop
  /\ lastDone' = Head(todo)
  /\ UNCHANGED <<handle, live, oneShotPending, enableValidationLayers, linearBlit,
                 physicalDeviceSelected, exit, destroyed, doubleDestroyed>>
  /\ UNCHANGED objs
  /\ UNCHANGED <<prog, gpu, hist>>
  /\ UNCHANGED call

\* Run has returned: main returns EXIT_SUCCESS
MainReturn ==
  /\ Running /\ Head(todo).op = "return"
  /\ exit' = "EXIT_SUCCESS"
  /\ todo' = <<>>
  /\ lastDone' = Head(todo)
  /\ UNCHANGED <<handle, live, oneShotPending, enableValidationLayers, linearBlit,
                 physicalDeviceSelected, recreations,
                 destroyed, doubleDestroyed, liveAtLoop>>
  /\ UNCHANGED objs
  /\ UNCHANGED <<prog, gpu, hist>>
  /\ UNCHANGED call

NextRun ==
  \/ CreateObject
  \/ CheckLinearBlit
  \/ DestroyObject
  \/ SelectPhysicalDevice
  \/ FindQueueFamilies
  \/ SingleTimeSubmit
  \/ QueueWaitIdle
  \/ SingleTimeExecute
  \/ MainLoopRun
  \/ MainReturn

SpecRun == InitRun /\ [][NextRun]_vars

\* ======================================== single calls of functions (SpecFn)
\* non-empty lists over S, as vkGetPhysicalDeviceSurface*KHR fills them
Lists(S) == UNION {[1 .. n -> S] : n \in 1 .. MaxList}

Formats == {"VK_FORMAT_B8G8R8A8_SRGB", "VK_FORMAT_B8G8R8A8_UNORM"}
ColorSpaces == {"VK_COLOR_SPACE_SRGB_NONLINEAR_KHR", "VK_COLOR_SPACE_DISPLAY_P3_NONLINEAR_EXT"}
SurfaceFormats == [format : Formats, colorSpace : ColorSpaces]

\* a test that looks at the format only
FormatWantedAnySpace(availableFormat) ==
  availableFormat.format = "VK_FORMAT_B8G8R8A8_SRGB"

\* the test of the loop in ChooseSwapSurfaceFormat
FormatWanted(availableFormat) ==
  /\ availableFormat.format = "VK_FORMAT_B8G8R8A8_SRGB"
  /\ availableFormat.colorSpace = "VK_COLOR_SPACE_SRGB_NONLINEAR_KHR"

\* the range-for of ChooseSwapSurfaceFormat from entry i on, then the fallback
RECURSIVE SurfaceFormatFrom(_, _)
SurfaceFormatFrom(availableFormats, i) ==
  IF i > Len(availableFormats) THEN availableFormats[1]
  ELSE IF FormatWanted(availableFormats[i]) THEN availableFormats[i]
  ELSE SurfaceFormatFrom(availableFormats, i + 1)

\* the wanted format, whatever the list holds
WantedSurfaceFormat(availableFormats) ==
  [format |-> "VK_FORMAT_B8G8R8A8_SRGB", colorSpace |-> "VK_COLOR_SPACE_SRGB_NONLINEAR_KHR"]

ChooseSwapSurfaceFormat(availableFormats) == SurfaceFormatFrom(availableFormats, 1)

PresentModes == {"VK_PRESENT_MODE_IMMEDIATE_KHR", "VK_PRESENT_MODE_MAILBOX_KHR",
                 "VK_PRESENT_MODE_FIFO_KHR"}

\* a test for another mode
ModeWantedImmediate(availablePresentMode) ==
  availablePresentMode = "VK_PRESENT_MODE_IMMEDIATE_KHR"

\* the test of the loop in ChooseSwapPresentMode
ModeWanted(availablePresentMode) ==
  availablePresentMode = "VK_PRESENT_MODE_MAILBOX_KHR"

\* the range-for of ChooseSwapPresentMode from entry i on, then the fallback
RECURSIVE PresentModeFrom(_, _)
PresentModeFrom(availablePresentModes, i) ==
  IF i > Len(availablePresentModes) THEN "VK_PRESENT_MODE_FIFO_KHR"
  ELSE IF ModeWanted(availablePresentModes[i]) THEN availablePresentModes[i]
  ELSE PresentModeFrom(availablePresentModes, i + 1)

ChooseSwapPresentMode(availablePresentModes) == PresentModeFrom(availablePresentModes, 1)

\* std::numeric_limits<uint32_t>::max()
UINT32_MAX == 2 ^ UintBits - 1

\* static_cast<uint32_t>(int)
ToUint32(i) == i % (UINT32_MAX + 1)

\* a clamp that leaves out the upper bound
ClampBelow(v, lo, hi) == IF v < lo THEN lo ELSE v

\* std::clamp(v, lo, hi) for lo <= hi
Clamp(v, lo, hi) == IF v < lo THEN lo ELSE IF hi < v THEN hi ELSE v

Sizes == 0 .. MaxExtent
Extent(w, h) == [width |-> w, height |-> h]
Extents == [width : Sizes, height : Sizes]

\* VkSurfaceCapabilitiesKHR as far as ChooseSwapExtent reads it, with
\* minImageExtent <= maxImageExtent on both axes
Capabilities ==
  {c \in [currentExtent : [width : Sizes \cup {UINT32_MAX}, height : Sizes \cup {UINT32_MAX}],
          minImageExtent : Extents, maxImageExtent : Extents] :
     /\ c.minImageExtent.width <= c.maxImageExtent.width
     /\ c.minImageExtent.height <= c.maxImageExtent.height}

\* a test that asks the window whenever currentExtent lies outside the bounds
AskWindowOutOfBounds(capabilities) ==
  \/ capabilities.currentExtent.width = UINT32_MAX
  \/ capabilities.currentExtent.width > capabilities.maxImageExtent.width

\* the surface leaves the extent to the swapchain
AskWindow(capabilities) == capabilities.currentExtent.width = UINT32_MAX

\* window: what glfwGetFramebufferSize(window, &width, &height) gives
ChooseSwapExtent(capabilities, window) ==
  IF ~AskWindow(capabilities)
  THEN capabilities.currentExtent
  ELSE LET actualExtent == Extent(ToUint32(window.width), ToUint32(window.height))
       IN Extent(Clamp(actualExtent.width, capabilities.minImageExtent.width,
                       capabilities.maxImageExtent.width),
                 Clamp(actualExtent.height, capabilities.minImageExtent.height,
                       capabilities.maxImageExtent.height))

\* uint32_t imageCount = minImageCount + 1, brought down to maxImageCount
\* when there is a maximum and it is exceeded
ImageCount(capabilities) ==
  LET imageCount == ToUint32(capabilities.minImageCount + 1)
  IN IF capabilities.maxImageCount > 0 /\ imageCount > capabilities.maxImageCount
     THEN capabilities.maxImageCount
     ELSE imageCount

\* the VkSwapchainCreateInfoKHR CreateSwapChain fills from what the device reports
SwapchainCreateInfo(swapChainSupport, window) ==
  LET surfaceFormat == ChooseSwapSurfaceFormat(swapChainSupport.formats)
      presentMode == ChooseSwapPresentMode(swapChainSupport.presentModes)
      extent == ChooseSwapExtent(swapChainSupport.capabilities, window)
  IN [minImageCount |-> ImageCount(swapChainSupport.capabilities),
      imageFormat |-> surfaceFormat.format,
      imageColorSpace |-> surfaceFormat.colorSpace,
      imageExtent |-> extent,
      presentMode |-> presentMode]

Return(v) ==
  /\ fpc' = "returned"
  /\ ret' = v
  /\ UNCHANGED <<callee, arg, loc, mem, cmds, submits>>

CallChooseSwapSurfaceFormat ==
  /\ callee = "ChooseSwapSurfaceFormat" /\ fpc = "call"
  /\ Return(ChooseSwapSurfaceFormat(arg.availableFormats))
  /\ UNCHANGED <<prog, gpu, hist, life>>

CallChooseSwapPresentMode ==
  /\ callee = "ChooseSwapPresentMode" /\ fpc = "call"
  /\ Return(ChooseSwapPresentMode(arg.availablePresentModes))
  /\ UNCHANGED <<prog, gpu, hist, life>>

CallChooseSwapExtent ==
  /\ callee = "ChooseSwapExtent" /\ fpc = "call"
  /\ Return(ChooseSwapExtent(arg.capabilities, arg.window))
  /\ UNCHANGED <<prog, gpu, hist, life>>

CallCreateSwapChain ==
  /\ callee = "CreateSwapChain" /\ fpc = "call"
  /\ Return(SwapchainCreateInfo(arg.swapChainSupport, arg.window))
  /\ UNCHANGED <<prog, gpu, hist, life>>

Layouts == {"VK_IMAGE_LAYOUT_UNDEFINED", "VK_IMAGE_LAYOUT_TRANSFER_DST_OPTIMAL",
            "VK_IMAGE_LAYOUT_TRANSFER_SRC_OPTIMAL", "VK_IMAGE_LAYOUT_SHADER_READ_ONLY_OPTIMAL",
            "VK_IMAGE_LAYOUT_COLOR_ATTACHMENT_OPTIMAL"}

\* a test that takes every transition into the transfer-destination layout
TransitionStagesAnyToDst(oldLayout, newLayout) ==
  IF newLayout = "VK_IMAGE_LAYOUT_TRANSFER_DST_OPTIMAL"
  THEN [supported |-> TRUE,
        sourceStage |-> "VK_PIPELINE_STAGE_TOP_OF_PIPE_BIT",
        destinationStage |-> "VK_PIPELINE_STAGE_TRANSFER_BIT"]
  ELSE [supported |-> FALSE]

\* the if / else if / else of TransitionImageLayout
TransitionStages(oldLayout, newLayout) ==
  IF oldLayout = "VK_IMAGE_LAYOUT_UNDEFINED"
       /\ newLayout = "VK_IMAGE_LAYOUT_TRANSFER_DST_OPTIMAL"
  THEN [supported |-> TRUE,
        sourceStage |-> "VK_PIPELINE_STAGE_TOP_OF_PIPE_BIT",
        destinationStage |-> "VK_PIPELINE_STAGE_TRANSFER_BIT"]
  ELSE IF oldLayout = "VK_IMAGE_LAYOUT_TRANSFER_DST_OPTIMAL"
            /\ newLayout = "VK_IMAGE_LAYOUT_SHADER_READ_ONLY_OPTIMAL"
  THEN [supported |-> TRUE,
        sourceStage |-> "VK_PIPELINE_STAGE_TRANSFER_BIT",
        destinationStage |-> "VK_PIPELINE_STAGE_FRAGMENT_SHADER_BIT"]
  ELSE [supported |-> FALSE]

\* vkCmdPipelineBarrier with one image memory barrier
Barrier(oldLayout, newLayout, baseMipLevel, levelCount) ==
  [cmd |-> "vkCmdPipelineBarrier", oldLayout |-> oldLayout, newLayout |-> newLayout,
   baseMipLevel |-> baseMipLevel, levelCount |-> levelCount]

\* the layouts of an image's levels after the barrier b
AfterBarrier(layouts, b) ==
  [l \in DOMAIN layouts |->
     IF b.baseMipLevel <= l /\ l < b.baseMipLevel + b.levelCount
     THEN b.newLayout ELSE layouts[l]]

\* EndSingleTimeCommands hands the command buffer to vkQueueSubmit and waits
\* with vkQueueWaitIdle, looking at neither result: the memory is as the
\* commands leave it when the queue took the submission, and as it was when
\* the queue refused it
Executed(before, after, ok) == IF ok THEN after ELSE before

\* TransitionImageLayout(image, format, oldLayout, newLayout, mipLevels):
\* BeginSingleTimeCommands, then the test; the barrier and
\* EndSingleTimeCommands only for a supported pair
CallTransitionImageLayout ==
  /\ callee = "TransitionImageLayout" /\ fpc = "call"
  /\ IF TransitionStages(arg.oldLayout, arg.newLayout).supported
     THEN LET b == Barrier(arg.oldLayout, arg.newLayout, 0, arg.mipLevels)
          IN \E ok \in BOOLEAN :
               /\ cmds' = <<b>>
               /\ mem' = Executed(mem, AfterBarrier(mem, b), ok)
               /\ loc' = [commandBuffer |-> "freed", executed |-> ok]
               /\ submits' = submits + 1
               /\ fpc' = "returned"
     ELSE /\ fpc' = "thrown"
          /\ loc' = [commandBuffer |-> "recording", executed |-> FALSE]
          /\ UNCHANGED <<cmds, mem, submits>>
  /\ UNCHANGED <<callee, arg, ret>>
  /\ UNCHANGED <<prog, gpu, hist, life>>

\* floor(log2(x)) for x >= 1
RECURSIVE Log2Floor(_)
Log2Floor(x) == IF x < 2 THEN 0 ELSE 1 + Log2Floor(x \div 2)

Max(a, b) == IF a > b THEN a ELSE b

\* vkMipLevels as CreateTextureImage computes it
MipLevels(texWidth, texHeight) == Log2Floor(Max(texWidth, texHeight)) + 1

\* a halving that does not stop at 1
HalfToZero(d) == d \div 2

\* mipWidth > 1 ? mipWidth / 2 : 1
Half(d) == IF d > 1 THEN d \div 2 ELSE 1

\* the level the barriers of iteration i are put on, were it the level written
BarrierLevelWritten(i) == i

\* barrier.subresourceRange.baseMipLevel = i - 1
BarrierLevel(i) == i - 1

\* vkCmdBlitImage; layouts: the layouts the commands recorded before it leave
\* the levels in (history, no argument of the call)
Blit(srcLevel, srcExtent, dstLevel, dstExtent, layouts) ==
  [cmd |-> "vkCmdBlitImage", srcLevel |-> srcLevel, srcExtent |-> srcExtent,
   dstLevel |-> dstLevel, dstExtent |-> dstExtent, layouts |-> layouts]

\* CreateTextureImage up to its call of GenerateMipmaps: the image is created
\* with vkMipLevels levels, all of them moved to the transfer-destination
\* layout, and level 0 is filled from the staging buffer
CallCreateTextureImage ==
  /\ callee = "CreateTextureImage" /\ fpc = "call"
  /\ LET vkMipLevels == MipLevels(arg.texWidth, arg.texHeight)
         created == [l \in 0 .. (vkMipLevels - 1) |-> "VK_IMAGE_LAYOUT_UNDEFINED"]
         b == Barrier("VK_IMAGE_LAYOUT_UNDEFINED", "VK_IMAGE_LAYOUT_TRANSFER_DST_OPTIMAL",
                      0, vkMipLevels)
     IN /\ \E ok \in BOOLEAN : mem' = Executed(created, AfterBarrier(created, b), ok)
        /\ callee' = "GenerateMipmaps"
        /\ arg' = [texWidth |-> arg.texWidth, texHeight |-> arg.texHeight,
                   mipLevels |-> vkMipLevels, linearBlit |-> arg.linearBlit,
                   caller |-> "CreateTextureImage"]
  /\ submits' = submits + 2
  /\ UNCHANGED <<fpc, loc, cmds, ret>>
  /\ UNCHANGED <<prog, gpu, hist, life>>

\* GenerateMipmaps: the format test, then BeginSingleTimeCommands
GenerateMipmapsBegin ==
  /\ callee = "GenerateMipmaps" /\ fpc = "call"
  /\ IF arg.linearBlit
     THEN /\ fpc' = "loop"
          /\ loc' = [i |-> 1, mipWidth |-> arg.texWidth, mipHeight |-> arg.texHeight,
                     commandBuffer |-> "recording", layouts |-> mem, executed |-> FALSE]
     ELSE /\ fpc' = "thrown"
          /\ UNCHANGED loc
  /\ UNCHANGED <<callee, arg, mem, cmds, submits, ret>>
  /\ UNCHANGED <<prog, gpu, hist, life>>

\* one iteration of the loop over i = 1 .. mipLevels - 1
GenerateMipmapsLevel ==
  /\ callee = "GenerateMipmaps" /\ fpc = "loop"
  /\ loc.i < arg.mipLevels
  /\ LET toSrc == Barrier("VK_IMAGE_LAYOUT_TRANSFER_DST_OPTIMAL",
                          "VK_IMAGE_LAYOUT_TRANSFER_SRC_OPTIMAL", BarrierLevel(loc.i), 1)
         blit == Blit(loc.i - 1, Extent(loc.mipWidth, loc.mipHeight),
                      loc.i, Extent(Half(loc.mipWidth), Half(loc.mipHeight)),
                      AfterBarrier(loc.layouts, toSrc))
         toRead == Barrier("VK_IMAGE_LAYOUT_TRANSFER_SRC_OPTIMAL",
                           "VK_IMAGE_LAYOUT_SHADER_READ_ONLY_OPTIMAL", BarrierLevel(loc.i), 1)
     IN /\ cmds' = cmds \o <<toSrc, blit, toRead>>
        /\ loc' = [loc EXCEPT !.i = @ + 1,
                               !.mipWidth = IF @ > 1 THEN @ \div 2 ELSE @,
                               !.mipHeight = IF @ > 1 THEN @ \div 2 ELSE @,
                               !.layouts = AfterBarrier(AfterBarrier(@, toSrc), toRead)]
  /\ UNCHANGED <<callee, arg, fpc, mem, submits, ret>>
  /\ UNCHANGED <<prog, gpu, hist, life>>

\* after the loop: the barrier on level mipLevels - 1, EndSingleTimeCommands
GenerateMipmapsEnd ==
  /\ callee = "GenerateMipmaps" /\ fpc = "loop"
  /\ ~(loc.i < arg.mipLevels)
  /\ LET last == Barrier("VK_IMAGE_LAYOUT_TRANSFER_DST_OPTIMAL",
                         "VK_IMAGE_LAYOUT_SHADER_READ_ONLY_OPTIMAL", arg.mipLevels - 1, 1)
     IN \E ok \in BOOLEAN :
          /\ cmds' = Append(cmds, last)
          /\ mem' = Executed(mem, AfterBarrier(loc.layouts, last), ok)
          /\ loc' = [loc EXCEPT !.commandBuffer = "freed",
                                 !.layouts = AfterBarrier(@, last),
                                 !.executed = ok]
  /\ submits' = submits + 1
  /\ fpc' = "returned"
  /\ UNCHANGED <<callee, arg, ret>>
  /\ UNCHANGED <<prog, gpu, hist, life>>

\* sizeof(Vertex): two glm::vec3 and one glm::vec2, eight floats
SizeOfVertex == 32

\* sizeof(uint32_t), the type of an index
SizeOfIndex == 4

\* the functions that upload through a staging buffer
Uploads == {"CreateVertexBuffer", "CreateIndexBuffer"}

\* sizeof(vertices[0]) and sizeof(indices[0])
SizeOfElement(f) == IF f = "CreateVertexBuffer" THEN SizeOfVertex ELSE SizeOfIndex

\* the bytes of a vector of count elements, each named by its place
Storage(f, count) == [i \in 1 .. (SizeOfElement(f) * count) |-> i]

\* a size counted in elements
SizeInElements(f, count) == count

\* bufferSize = sizeof(v[0]) * v.size()
BufferSize(f, count) == SizeOfElement(f) * count

\* the memory of a buffer CreateBuffer has made: size bytes, none written
NewBuffer(size) == [i \in 1 .. size |-> 0]

\* memcpy(dst, src, n)
MemCpy(dst, src, n) == [i \in 1 .. Len(dst) |-> IF i <= n THEN src[i] ELSE dst[i]]

\* CopyBuffer records one vkCmdCopyBuffer whose region has the size it was
\* given and both offsets zero
CopyBuffer(size) ==
  [cmd |-> "vkCmdCopyBuffer", srcOffset |-> 0, dstOffset |-> 0, size |-> size]

\* the destination after the copy command c has run
AfterCopy(dst, src, c) ==
  [i \in 1 .. Len(dst) |->
     IF c.dstOffset < i /\ i <= c.dstOffset + c.size
     THEN src[i - c.dstOffset + c.srcOffset] ELSE dst[i]]

\* CreateVertexBuffer and CreateIndexBuffer up to vkUnmapMemory: CreateBuffer
\* throws when it fails; the result of vkMapMemory is not looked at, and
\* when the mapping failed memcpy writes through a pointer nobody set, which
\* ends the process or is not seen in the buffer
UploadToStaging ==
  /\ callee \in Uploads /\ fpc = "call"
  /\ LET bufferSize == BufferSize(callee, Len(arg.data) \div SizeOfElement(callee))
     IN \E created \in BOOLEAN, mapped \in BOOLEAN, survives \in BOOLEAN :
          IF ~created
          THEN /\ fpc' = "thrown"
               /\ UNCHANGED <<loc, mem>>
          ELSE /\ loc' = [bufferSize |-> bufferSize, mapped |-> mapped, executed |-> FALSE]
               /\ mem' = [stagingBuffer |->
                            IF mapped THEN MemCpy(NewBuffer(bufferSize), arg.data, bufferSize)
                            ELSE NewBuffer(bufferSize),
                          buffer |-> <<>>]
               /\ fpc' = IF mapped \/ survives THEN "staged" ELSE "crashed"
  /\ UNCHANGED <<callee, arg, cmds, submits, ret>>
  /\ UNCHANGED <<prog, gpu, hist, life>>

\* the rest: the device-local buffer, CopyBuffer and the end of the staging
\* buffer
UploadToDevice ==
  /\ callee \in Uploads /\ fpc = "staged"
  /\ \E created \in BOOLEAN, ok \in BOOLEAN :
       IF ~created
       THEN /\ fpc' = "thrown"
            /\ UNCHANGED <<loc, mem, cmds, submits>>
       ELSE LET c == CopyBuffer(loc.bufferSize)
                made == NewBuffer(loc.bufferSize)
            IN /\ cmds' = <<c>>
               /\ submits' = submits + 1
               /\ mem' = [stagingBuffer |-> <<>>,
                          buffer |-> Executed(made, AfterCopy(made, mem.stagingBuffer, c), ok)]
               /\ loc' = [loc EXCEPT !.executed = ok]
               /\ fpc' = "returned"
  /\ UNCHANGED <<callee, arg, ret>>
  /\ UNCHANGED <<prog, gpu, hist, life>>

\* texture sizes: the small ones and the 512 x 256 texture
TexSizes == {Extent(w, h) : w \in 1 .. MaxTex, h \in 1 .. MaxTex} \cup {Extent(512, 256)}

\* the capabilities CreateSwapChain is called with here: the extent left to
\* the window, or the window's size reported as the surface's
SwapChainCapabilities ==
  [currentExtent : {Extent(UINT32_MAX, UINT32_MAX), Extent(1, 1)},
   minImageExtent : {Extent(0, 0)}, maxImageExtent : {Extent(MaxExtent, MaxExtent)},
   minImageCount : {2}, maxImageCount : {0}]

\* the image counts a surface can report: the small ones and the two
\* largest values of a uint32_t
ImageCounts == (0 .. MaxImages) \cup {UINT32_MAX - 1, UINT32_MAX}

\* capabilities that differ in the image counts only
ImageCountCapabilities ==
  [currentExtent : {Extent(1, 1)},
   minImageExtent : {Extent(0, 0)}, maxImageExtent : {Extent(MaxExtent, MaxExtent)},
   minImageCount : ImageCounts, maxImageCount : ImageCounts]

\* the state a call starts in
Called(f, a) ==
  /\ callee = f /\ arg = a /\ fpc = "call"
  /\ loc = <<>> /\ mem = <<>> /\ cmds = <<>> /\ submits = 0 /\ ret = "none"

\* the same for a function that works on an image or a buffer
CalledOn(f, a, m) ==
  /\ callee = f /\ arg = a /\ fpc = "call"
  /\ loc = <<>> /\ mem = m /\ cmds = <<>> /\ submits = 0 /\ ret = "none"

InitFn ==
  /\ FrameInit
  /\ enableValidationLayers = TRUE
  /\ linearBlit = TRUE
  /\ physicalDeviceSelected = TRUE
  /\ todo = <<>>
  /\ handle = AfterInitVulkan.handle
  /\ live = AfterInitVulkan.live
  /\ liveAtLoop = AfterInitVulkan.live
  /\ oneShotPending = FALSE
  /\ recreations = 0
  /\ exit = "running"
  /\ destroyed = <<>> /\ doubleDestroyed = {}
  /\ lastDone = Call("main", "window")
  /\ objs = TrackedAfterInitVulkan
  /\ \/ \E l \in Lists(SurfaceFormats) :
          Called("ChooseSwapSurfaceFormat", [availableFormats |-> l])
     \/ \E l \in Lists(PresentModes) :
          Called("ChooseSwapPresentMode", [availablePresentModes |-> l])
     \/ \E c \in Capabilities, w \in Extents :
          Called("ChooseSwapExtent", [capabilities |-> c, window |-> w])
     \/ \E f \in Lists(SurfaceFormats), p \in Lists(PresentModes), c \in SwapChainCapabilities :
          Called("CreateSwapChain",
                 [swapChainSupport |-> [formats |-> f, presentModes |-> p, capabilities |-> c],
                  window |-> Extent(1, 1)])
     \/ \E c \in ImageCountCapabilities :
          Called("CreateSwapChain",
                 [swapChainSupport |->
                    [formats |-> <<[format |-> "VK_FORMAT_B8G8R8A8_SRGB",
                                    colorSpace |-> "VK_COLOR_SPACE_SRGB_NONLINEAR_KHR"]>>,
                     presentModes |-> <<"VK_PRESENT_MODE_FIFO_KHR">>,
                     capabilities |-> c],
                  window |-> Extent(1, 1)])
     \/ \E o \in Layouts, n \in Layouts, L \in 1 .. MaxLevels :
          CalledOn("TransitionImageLayout",
                   [oldLayout |-> o, newLayout |-> n, mipLevels |-> L],
                   [l \in 0 .. (L - 1) |-> o])
     \/ \E t \in TexSizes, b \in BOOLEAN :
          Called("CreateTextureImage",
                 [texWidth |-> t.width, texHeight |-> t.height, linearBlit |-> b])
     \/ \E t \in TexSizes, L \in 1 .. MaxLevels, b \in BOOLEAN :
          CalledOn("GenerateMipmaps",
                   [texWidth |-> t.width, texHeight |-> t.height, mipLevels |-> L,
                    linearBlit |-> b, caller |-> "none"],
                   [l \in 0 .. (L - 1) |-> "VK_IMAGE_LAYOUT_TRANSFER_DST_OPTIMAL"])
     \/ \E f \in Uploads, n \in 1 .. MaxCount :
          Called(f, [data |-> Storage(f, n)])

NextFn ==
  \/ CallChooseSwapSurfaceFormat
  \/ CallChooseSwapPresentMode
  \/ CallChooseSwapExtent
  \/ CallCreateSwapChain
  \/ CallTransitionImageLayout
  \/ CallCreateTextureImage
  \/ GenerateMipmapsBegin
  \/ GenerateMipmapsLevel
  \/ GenerateMipmapsEnd
  \/ UploadToStaging
  \/ UploadToDevice

SpecFn == InitFn /\ [][NextFn]_vars

\* ================================================================ claims
OpNames(t) == [i \in 1 .. Len(t) |-> t[i].op]
InRecreate == pc \in {"rcGet", "rcTest", "rcBody", "rcIdle", "rcCleanup", "rcCreate"}
OutOfDate == "VK_ERROR_OUT_OF_DATE_KHR"
Suboptimal == "VK_SUBOPTIMAL_KHR"
FullFrame == <<"wait", "acquire", "update", "resetFence", "record",
               "bindDescriptorSets", "submit", "present">>

\* C1: the CPU writes slot k's uniform buffer and re-records slot k's command
\* buffer only when the slot's fence has been seen signaled since the slot's
\* last submit and no submission of the slot is pending on the GPU.
C1_NoOverlap ==
  [][\A k \in Slots :
       (ubo'[k] # ubo[k] \/ cmdRec'[k] # cmdRec[k])
         => (observed[k] /\ cmdState[k] # "pending")]_vars

\* a slot is written and recorded again while the other slot's submission is
\* still executing
C1_Witness ==
  /\ pc = "submit"
  /\ frameNo > MAX_FRAMES_IN_FLIGHT
  /\ ubo[currentFrame] = frameNo /\ cmdRec[currentFrame] = frameNo
  /\ \E k \in Slots : k # currentFrame /\ cmdState[k] = "pending"

\* C2: the fence of the active slot is reset only when it is signaled and no
\* submission that will signal it is pending; a slot's command buffer is
\* recorded at most once between two signals of its fence.
C2_FenceReset ==
  /\ pc = "resetFence" =>
       (inFlightFences[currentFrame] /\ cmdState[currentFrame] # "pending")
  /\ \A k \in Slots : recSinceSignal[k] <= 1

\* the fence of a slot used two iterations back is about to be reset
C2_Witness ==
  /\ pc = "resetFence"
  /\ cmdRec[currentFrame] > 0
  /\ cmdRec[currentFrame] = frameNo - MAX_FRAMES_IN_FLIGHT

\* C3: while every acquire and present has succeeded and no resize was
\* flagged, the DrawFrame call number j (from 0) uses index j mod N for every
\* per-slot object it touches; currentFrame stays in 0..N-1.
C3_SlotPeriod ==
  /\ currentFrame \in Slots
  /\ (clean /\ pc \notin {"loop", "poll", "wait"}) =>
       \A i \in 1 .. Len(trace) : trace[i].slot = (frameNo - 1) % MAX_FRAMES_IN_FLIGHT

\* a slot has come round again after N clean iterations and was presented
C3_Witness ==
  /\ clean /\ pc = "advance"
  /\ frameNo > MAX_FRAMES_IN_FLIGHT
  /\ OpNames(trace) = FullFrame

\* C4: a DrawFrame whose acquire reported out-of-date has only waited,
\* acquired and recreated the swapchain; currentFrame is the slot it used, and
\* that slot's fence is signaled with nothing pending, so the next wait
\* returns at once.
C4_AbortAtAcquire ==
  (pc \in {"loop", "poll", "wait"} /\ result = OutOfDate) =>
     /\ OpNames(trace) = <<"wait", "acquire", "recreate", "create">>
     /\ currentFrame = trace[1].slot
     /\ inFlightFences[currentFrame]
     /\ cmdState[currentFrame] # "pending"

\* the retried slot had been submitted in an earlier iteration
C4_Witness ==
  /\ pc = "wait" /\ result = OutOfDate
  /\ cmdRec[currentFrame] > 0

\* C5: when vkQueuePresentKHR reports out-of-date or suboptimal, the test
\* that follows it calls ReCreateSwapChain.
C5_PresentResultHandled ==
  (pc = "check" /\ presentResult \in {OutOfDate, Suboptimal}) => NeedsRecreate

\* C6: a set framebufferResized flag is cleared only by the test after the
\* present, which then calls ReCreateSwapChain; when that test finds the flag
\* set it always does so; hence an iteration that presented ends either with
\* the flag clear or with a recreation made after its present.
C6_ResizeHandled ==
  [][/\ (pc = "check" /\ framebufferResized /\ pc' # pc) =>
          (pc' = "rcGet" /\ rcRet' = "advance" /\ ~framebufferResized')
     /\ (framebufferResized /\ ~framebufferResized') =>
          (pc = "check" /\ pc' = "rcGet" /\ rcRet' = "advance")
     /\ (pc' = "advance" /\ framebufferResized') =>
          OpNames(trace') = FullFrame \o <<"recreate", "create">>]_vars

\* an iteration whose acquire succeeded recreated the swapchain after its
\* present, because of the flag alone
C6_Witness ==
  /\ pc = "advance" /\ result = "VK_SUCCESS"
  /\ OpNames(trace) = FullFrame \o <<"recreate", "create">>

\* C7: after a suboptimal acquire the iteration goes on (only a failing
\* record or vkQueueSubmit, or a throw while recreating, ends it);
\* ReCreateSwapChain runs only once the frame has been recorded, submitted and
\* presented, and once the present has returned the iteration is in
\* ReCreateSwapChain or has completed it.
C7_SuboptimalAcquire ==
  result = Suboptimal =>
     /\ pc = "thrown" => ("submit" \notin Ops(trace) \/ "create" \in Ops(trace))
     /\ InRecreate => OpNames(SubSeq(trace, 1, Len(FullFrame))) = FullFrame
     /\ ("present" \in Ops(trace) /\ pc # "check") =>
          (InRecreate \/ OpNames(trace) = FullFrame \o <<"recreate", "create">>)

\* the iteration of a suboptimal acquire has presented and recreated
C7_Witness ==
  /\ pc = "advance" /\ result = Suboptimal
  /\ OpNames(trace) = FullFrame \o <<"recreate", "create">>

\* C8: the framebuffer recorded, the command buffer submitted and the image
\* presented belong to the live swapchain, and nothing is recorded, submitted
\* or presented in an iteration after it has torn the swapchain down.
C8_LiveSwapchain ==
  /\ pc \in {"record", "submit", "present"} =>
       (swapChain = "live" /\ imageIndex.live /\ imageIndex.idx \in Images)
  /\ \A i \in 1 .. Len(trace) : \A j \in 1 .. Len(trace) :
       (i < j /\ trace[i].op = "recreate") =>
          trace[j].op \notin {"update", "resetFence", "record", "submit", "present"}

\* C9: when CleanupSwapChain is about to destroy the framebuffers, views,
\* attachments and swapchain, no submitted command buffer is pending on the GPU.
C9_IdleBeforeTeardown ==
  pc = "rcCleanup" => \A k \in Slots : cmdState[k] # "pending"

\* teardown in an iteration that had just submitted its frame
C9_Witness ==
  /\ pc = "rcCleanup" /\ rcRet = "advance"
  /\ "submit" \in Ops(trace)

\* C10: ReCreateSwapChain goes on to wait for the device, tear down and create
\* only while the framebuffer is non-zero in both axes.
C10_NoCreateAtZero ==
  pc \in {"rcIdle", "rcCleanup", "rcCreate"} => (fbW # 0 /\ fbH # 0)

\* C12: Cleanup is entered only from MainLoop's vkDeviceWaitIdle, and when it
\* destroys the per-slot command buffers, uniform buffers, semaphores and
\* fences no submission is pending on the GPU.
C12_IdleBeforeCleanup ==
  [][/\ (pc' = "cleanup" /\ pc # "cleanup") => pc = "mainIdle"
     /\ (pc = "cleanup" /\ pc' = "exit") => \A k \in Slots : cmdState[k] # "pending"]_vars

\* Cleanup has run after a last DrawFrame that had submitted its frame
C12_Witness ==
  /\ pc = "exit"
  /\ "submit" \in Ops(trace)

PresentFailed == presentResult \notin {"none", "VK_SUCCESS", "VK_SUBOPTIMAL_KHR"}

\* C17: currentFrame changes only by the step to (currentFrame + 1) mod N at
\* the end of DrawFrame, and an iteration whose present call returned an error
\* does not go on to that step.
C17_AdvanceAfterPresent ==
  [][/\ currentFrame' # currentFrame =>
          (pc = "advance" /\ currentFrame' = (currentFrame + 1) % MAX_FRAMES_IN_FLIGHT)
     /\ (pc = "check" /\ pc' # pc /\ PresentFailed) =>
          (pc' # "advance" /\ ~(pc' = "rcGet" /\ rcRet' = "advance"))]_vars

\* C18: an out-of-date or suboptimal result of the acquire does not make
\* DrawFrame throw, and an out-of-date or suboptimal result of the acquire or
\* of the present makes the iteration call ReCreateSwapChain.
C18_InvalidationAbsorbed ==
  [][/\ (pc = "acquire" /\ pc' # pc /\ result' \in {OutOfDate, Suboptimal}) => 
          pc' = (IF result' = OutOfDate THEN "rcGet" ELSE "update")
     /\ (pc = "check" /\ pc' # pc
           /\ (result = Suboptimal \/ presentResult \in {OutOfDate, Suboptimal})) =>
          pc' = "rcGet"]_vars

\* the execution of the command buffer a present request belongs to is over
Completed(q) ==
  \/ cmdRec[q.slot] > q.frame
  \/ cmdRec[q.slot] = q.frame /\ cmdState[q.slot] # "pending"

\* C19: the submit waits on the semaphore handed to the acquire of the same
\* iteration and signals the slot's render-finished semaphore and the slot's
\* fence; the present waits on the semaphore that submit signals; the GPU
\* executes a submission only when its wait semaphore is signaled, and the
\* presentation engine takes a present request only after the execution of
\* the same iteration's command buffer has completed.
C19_SemaphoreChain ==
  [][/\ (pc = "submit" /\ pc' = "present") =>
          /\ trace[2].op = "acquire"
          /\ submitInfo'[currentFrame] = [wait |-> trace[2].slot,
                                          signal |-> currentFrame,
                                          fence |-> currentFrame]
     /\ (pc = "present" /\ pc' = "check") =>
          presentQ'[Len(presentQ')] = [frame |-> cmdRec[currentFrame],
                                       slot |-> currentFrame,
                                       wait |-> submitInfo[currentFrame].signal]
     /\ \A k \in Slots :
          (cmdState[k] = "pending" /\ cmdState'[k] # "pending") =>
             /\ imageAvailableSemaphores[submitInfo[k].wait]
             /\ renderFinishedSemaphores'[k] /\ inFlightFences'[k]
     /\ (presentQ # <<>> /\ presentQ' = Tail(presentQ)) =>
          Completed(Head(presentQ))]_vars

\* the present request of a full iteration has been taken by the
\* presentation engine after the iteration's execution
C19_Witness ==
  /\ pc = "advance"
  /\ OpNames(trace) = FullFrame
  /\ frameNo > MAX_FRAMES_IN_FLIGHT
  /\ presentQ = <<>>
  /\ cmdState[currentFrame] = "executable"

\* C32 as stated: inside DrawFrame only the fence wait can keep the CPU
\* thread from going on; the acquire returns whatever result the swapchain
\* has for it, also when no image is available, and the uniform update, the
\* fence reset, the recording, the submit and the present return at once.
C32_OnlyFenceWaitBlocks ==
  /\ pc = "acquire" => \A r \in VkResults : ENABLED AcquireReturns(r)
  /\ pc = "update" => ENABLED UpdateUniformBuffer
  /\ pc = "resetFence" => ENABLED ResetFences
  /\ pc = "record" => ENABLED RecordCommandBuffer
  /\ pc = "submit" => ENABLED QueueSubmit
  /\ pc = "present" => ENABLED QueuePresent

\* what does hold: the steps after the acquire always return, and the acquire
\* returns whenever an image is available or the result is an error
C32_StepsAfterAcquireReturn ==
  /\ pc = "acquire" =>
        \A r \in VkResults :
           (ImageAvailable \/ r \notin {"VK_SUCCESS", "VK_SUBOPTIMAL_KHR"})
              => ENABLED AcquireReturns(r)
  /\ pc = "update" => ENABLED UpdateUniformBuffer
  /\ pc = "resetFence" => ENABLED ResetFences
  /\ pc = "record" => ENABLED RecordCommandBuffer
  /\ pc = "submit" => ENABLED QueueSubmit
  /\ pc = "present" => ENABLED QueuePresent

\* present requests still queued that wait on render-finished semaphore k
PendingOn(k) == {i \in 1 .. Len(presentQ) : presentQ[i].wait = k}

\* C34 as stated: when DrawFrame submits work that signals a render-finished
\* semaphore, no present request that waits on that semaphore is still
\* queued, and the GPU never signals a render-finished semaphore that a
\* present request queued before the submission still waits on.
C34_NoResignalWhilePresentPending ==
  [][/\ (pc = "submit" /\ pc' = "present") => PendingOn(SubmitSignalSemaphore) = {}
     /\ \A k \in Slots :
          (cmdState[k] = "pending" /\ cmdState'[k] # "pending") =>
             \A i \in PendingOn(submitInfo[k].signal) : presentQ[i].frame = cmdRec[k]]_vars

\* C35: whenever DrawFrame is at its fence wait, the fence of the active slot
\* is signaled or a submission that signals it is pending on the GPU; given
\* that the GPU executes every submission, the wait returns and DrawFrame
\* goes on to the acquire.
C35_FenceWaitReturns ==
  /\ [](pc = "wait" =>
         \/ inFlightFences[currentFrame]
         \/ /\ cmdState[currentFrame] = "pending"
            /\ submitInfo[currentFrame].fence = currentFrame)
  /\ (pc = "wait") ~> (pc = "acquire")

\* DrawFrame has to wait: the slot's submission of two iterations back is
\* still executing
C35_Witness ==
  /\ pc = "wait"
  /\ ~inFlightFences[currentFrame] /\ cmdState[currentFrame] = "pending"
  /\ frameNo >= MAX_FRAMES_IN_FLIGHT
  /\ cmdRec[currentFrame] = frameNo - MAX_FRAMES_IN_FLIGHT + 1

\* the pending submissions that wait on image-available semaphore s
WaitingOn(s) == {k \in Slots : cmdState[k] = "pending" /\ submitInfo[k].wait = s}

\* C36: when vkAcquireNextImageKHR is called, the semaphore handed to it is
\* unsignaled and no pending submission waits on it; a signal an acquire has
\* placed is waited on by the submit of the same iteration and by no other,
\* and the GPU takes it when it executes that submission.
C36_AcquireSemaphoreFree ==
  [][/\ (pc = "acquire" /\ pc' # pc) =>
          /\ ~imageAvailableSemaphores[AcquireSemaphore]
          /\ WaitingOn(AcquireSemaphore) = {}
     /\ (pc = "submit" /\ pc' = "present") =>
          /\ trace[2] = Op("acquire", SubmitWaitSemaphore)
          /\ imageAvailableSemaphores[SubmitWaitSemaphore]
          /\ WaitingOn(SubmitWaitSemaphore) = {}
     /\ \A s \in Slots :
          imageAvailableSemaphores[s] =>
             \/ Cardinality(WaitingOn(s)) = 1
             \/ /\ WaitingOn(s) = {}
                /\ s = currentFrame
                /\ pc \in {"update", "resetFence", "record", "submit", "thrown"}
     /\ \A k \in Slots :
          (cmdState[k] = "pending" /\ cmdState'[k] # "pending") =>
             /\ imageAvailableSemaphores[submitInfo[k].wait]
             /\ ~imageAvailableSemaphores'[submitInfo[k].wait]]_vars

\* the acquire is about to be called for a slot used before, after an
\* iteration that ended in a recreation of the swapchain, while the other
\* slot's submission still holds its own semaphore
C36_Witness ==
  /\ pc = "acquire"
  /\ cmdRec[currentFrame] > 0
  /\ retiredPresents > 0
  /\ \E k \in Slots : k # currentFrame /\ imageAvailableSemaphores[k]

\* the slots whose render submission has not signaled its frame-complete fence
FramesInFlight ==
  {k \in Slots : cmdState[k] = "pending" /\ ~inFlightFences[submitInfo[k].fence]}

\* C39: at most MAX_FRAMES_IN_FLIGHT submissions are in flight, each pending
\* submission is in flight on a fence of its own, and vkQueueSubmit is never
\* called for a slot whose earlier submission is still in flight.
C39_FramesInFlight ==
  [][/\ Cardinality(FramesInFlight) <= MAX_FRAMES_IN_FLIGHT
     /\ \A k \in Slots : cmdState[k] = "pending" => k \in FramesInFlight
     /\ \A j, k \in FramesInFlight : j # k => submitInfo[j].fence # submitInfo[k].fence
     /\ (pc = "submit" /\ pc' = "present") =>
          /\ currentFrame \notin FramesInFlight
          /\ ~inFlightFences[SubmitFence]
          /\ \A k \in FramesInFlight : submitInfo[k].fence # SubmitFence]_vars

\* every slot is in flight at once, the current one resubmitted after its
\* earlier frame completed
C39_Witness ==
  /\ pc = "present"
  /\ frameNo > MAX_FRAMES_IN_FLIGHT
  /\ Cardinality(FramesInFlight) = MAX_FRAMES_IN_FLIGHT

\* ------------------------------------------------ claims about Run (SpecRun)
AtMainLoop == exit = "running" /\ todo # <<>> /\ Head(todo).op = "loop"

\* Init's object state is the one Run reaches when it enters MainLoop.
LoopEntryAgrees ==
  (AtMainLoop /\ recreations = 0) =>
     (handle = AfterInitVulkan.handle /\ live = AfterInitVulkan.live)

SwapChainDependent ==
  {"vkSwapChain", "swapChainImageViews", "swapChainFramebuffers",
   "vkColorImage", "vkColorImageMemory", "vkColorImageView",
   "vkDepthImage", "vkDepthImageMemory", "vkDepthImageView"}

\* C11: when ReCreateSwapChain has returned, every swapchain-dependent handle
\* names a live object and the number of live objects of each kind is what it
\* was before the first recreation.
C11_RecreateReplaces ==
  (AtMainLoop /\ recreations > 0) =>
     \A h \in SwapChainDependent : handle[h] = "live" /\ live[h] = liveAtLoop[h]

\* C13: when Run has returned normally, no object created by InitVulkan or by
\* a ReCreateSwapChain is still alive.
C13_AllReleased ==
  exit = "EXIT_SUCCESS" => \A h \in Handles : live[h] = 0

\* C14: no destroy or free call is made through a handle whose object has
\* already been destroyed.
C14_SingleDestroy == doubleDestroyed = {}

\* place of the first creation through h among the calls of InitVulkan (0: none)
FirstCreated(h) ==
  IF \E i \in DOMAIN InitVulkanCalls : InitVulkanCalls[i] = In(InitVulkanCalls[i].fn, <<Create(h)>>)[1]
  THEN CHOOSE i \in DOMAIN InitVulkanCalls :
         /\ InitVulkanCalls[i].op = "create" /\ InitVulkanCalls[i].h = h
         /\ \A j \in 1 .. (i - 1) :
              ~(InitVulkanCalls[j].op = "create" /\ InitVulkanCalls[j].h = h)
  ELSE 0

\* C15: when Cleanup has run, any two objects of InitVulkan it destroyed were
\* destroyed in the reverse of the order of their creation.
C15_ReverseOrder ==
  exit = "EXIT_SUCCESS" =>
     \A i \in 1 .. Len(destroyed) : \A j \in 1 .. Len(destroyed) :
        (/\ FirstCreated(destroyed[i]) > 0
         /\ FirstCreated(destroyed[j]) > 0
         /\ FirstCreated(destroyed[i]) < FirstCreated(destroyed[j])) => j < i

\* functions Run calls before it needs the physical device
BeforeDevice ==
  {"InitWindow", "CreateInstance", "SetupDebugMessenger", "CreateSurface",
   "SelectPhysicalDevice"}

\* C16: without a selected physical device Run makes no call of
\* CreateLogicalDevice or of anything after it, and when the process has ended
\* main has returned EXIT_FAILURE.
C16_AbortWithoutDevice ==
  ~physicalDeviceSelected =>
     /\ (exit = "running" /\ todo # <<>>) => Head(todo).fn \in BeforeDevice
     /\ exit # "running" => exit = "EXIT_FAILURE"

\* the call Run is about to make, as a place in RunCalls (before MainLoop)
Place == Len(RunCalls) - Len(todo) + 1
StagingCopies == {"CopyBuffer", "CopyBufferToImage"}

\* C20: while a single-time command buffer is executing, the CPU is inside
\* vkQueueWaitIdle, so no single-time operation returns before its commands
\* have completed; and a staging buffer or its memory is destroyed only when
\* the copy out of it has been submitted earlier in the same function, after
\* the staging buffer's creation, and nothing is executing.
C20_StagingAfterCopy ==
  /\ oneShotPending => (Running /\ Head(todo).op = "waitIdle")
  /\ (Running /\ Head(todo).op = "destroy"
        /\ Head(todo).h \in {"stagingBuffer", "stagingBufferMemory"}) =>
       /\ ~oneShotPending
       /\ \E j \in 1 .. (Place - 1) :
            /\ RunCalls[j].op = "submit" /\ RunCalls[j].h \in StagingCopies
            /\ RunCalls[j].fn = Head(todo).fn
            /\ \A c \in j .. (Place - 1) :
                 ~(RunCalls[c].op = "create" /\ RunCalls[c].h = "stagingBuffer")

\* CreateVertexBuffer is about to destroy its staging buffer, CopyBuffer having
\* returned
C20_Witness ==
  /\ Running
  /\ Head(todo) = In("CreateVertexBuffer", <<Destroy("stagingBuffer")>>)[1]
  /\ lastDone = In("CreateVertexBuffer", <<Destroy("commandBuffer")>>)[1]
  /\ handle["stagingBuffer"] = "live" /\ handle["vkVertexBuffer"] = "live"

FormatCheck == In("CreateTextureImage", <<Call("formatProperties", "vkPhysicalDevice")>>)[1]
PlaceOfFormatCheck == CHOOSE i \in 1 .. Len(RunCalls) : RunCalls[i] = FormatCheck

InitVulkanDone == Running /\ lastDone = InitVulkanCalls[Len(InitVulkanCalls)]
ReCreateSwapChainDone ==
  Running /\ lastDone = In("ReCreateSwapChain", CreateFramebuffersCalls)[1]

\* the framebuffers' colour and depth attachments are the views the handle
\* variables hold, and those views exist
AttachmentsHeld ==
  /\ objs.attachments = Attachments(objs)
  /\ handle["vkColorImageView"] = "live" /\ handle["vkDepthImageView"] = "live"
  /\ <<"vkColorImageView", objs.attachments.color>> \notin objs.gone
  /\ <<"vkDepthImageView", objs.attachments.depth>> \notin objs.gone

\* every colour image created is the one vkColorImage holds or is destroyed
NoColorImageLeft ==
  \A i \in 1 .. objs.created["vkColorImage"] :
     i = objs.created["vkColorImage"] \/ <<"vkColorImage", i>> \in objs.gone

\* C37: when InitVulkan has returned and whenever ReCreateSwapChain has
\* returned, the framebuffers' colour and depth attachments are the views the
\* application holds, and no multisample colour image other than the current
\* one is left undestroyed.
C37_FramebufferAttachments ==
  (InitVulkanDone \/ ReCreateSwapChainDone) => (AttachmentsHeld /\ NoColorImageLeft)

\* what does hold: ReCreateSwapChain leaves the framebuffers on the views it
\* has just created
C37_AttachmentsAfterReCreate ==
  ReCreateSwapChainDone => AttachmentsHeld

\* ----------------------------------------- claims about single calls (SpecFn)
Returned(f) == callee = f /\ fpc = "returned"

\* C28: for a non-empty list of surface formats ChooseSwapSurfaceFormat
\* returns the first entry that is 8-bit BGRA sRGB with the sRGB-nonlinear
\* colour space when there is one, and the entry at index 0 otherwise.
C28_PreferredFormat ==
  Returned("ChooseSwapSurfaceFormat") =>
    LET l == arg.availableFormats
        hits == {i \in 1 .. Len(l) :
                   /\ l[i].format = "VK_FORMAT_B8G8R8A8_SRGB"
                   /\ l[i].colorSpace = "VK_COLOR_SPACE_SRGB_NONLINEAR_KHR"}
    IN IF hits = {}
       THEN ret = l[1]
       ELSE ret = l[CHOOSE i \in hits : \A j \in hits : i <= j]

\* the wanted entry is found behind an entry with the same format and
\* another colour space
C28_Witness ==
  /\ Returned("ChooseSwapSurfaceFormat")
  /\ Len(arg.availableFormats) > 1
  /\ arg.availableFormats[1].format = "VK_FORMAT_B8G8R8A8_SRGB"
  /\ ret # arg.availableFormats[1]
  /\ ret.colorSpace = "VK_COLOR_SPACE_SRGB_NONLINEAR_KHR"

Range(l) == {l[i] : i \in 1 .. Len(l)}

\* C26: for a non-empty list of present modes ChooseSwapPresentMode returns
\* the mailbox mode when the list contains it and the FIFO mode otherwise.
C26_MailboxOrFifo ==
  Returned("ChooseSwapPresentMode") =>
    ret = IF "VK_PRESENT_MODE_MAILBOX_KHR" \in Range(arg.availablePresentModes)
          THEN "VK_PRESENT_MODE_MAILBOX_KHR"
          ELSE "VK_PRESENT_MODE_FIFO_KHR"

\* mailbox is found behind other modes, FIFO among them
C26_Witness ==
  /\ Returned("ChooseSwapPresentMode")
  /\ Len(arg.availablePresentModes) = MaxList
  /\ arg.availablePresentModes[1] = "VK_PRESENT_MODE_FIFO_KHR"
  /\ arg.availablePresentModes[MaxList] = "VK_PRESENT_MODE_MAILBOX_KHR"
  /\ ret = "VK_PRESENT_MODE_MAILBOX_KHR"

InReportedFormats ==
  [format |-> ret.imageFormat, colorSpace |-> ret.imageColorSpace]
     \in Range(arg.swapChainSupport.formats)

\* C27 as stated: the surface format and the present mode of the swapchain
\* create request are members of the lists the device reported, whatever
\* non-empty lists it reported.
C27_FromReportedSets ==
  Returned("CreateSwapChain") =>
    /\ InReportedFormats
    /\ ret.presentMode \in Range(arg.swapChainSupport.presentModes)

\* C27, amended: the surface format of the create request is a member of the
\* reported list; the present mode is a member of the reported list whenever
\* that list contains the FIFO mode, and is the FIFO mode when it is not.
C27_FromReportedSetsWithFifo ==
  Returned("CreateSwapChain") =>
    /\ InReportedFormats
    /\ \/ ret.presentMode \in Range(arg.swapChainSupport.presentModes)
       \/ /\ "VK_PRESENT_MODE_FIFO_KHR" \notin Range(arg.swapChainSupport.presentModes)
          /\ ret.presentMode = "VK_PRESENT_MODE_FIFO_KHR"

\* the fallbacks are taken from lists that hold neither preferred value
C27_Witness ==
  /\ Returned("CreateSwapChain")
  /\ ~\E i \in DOMAIN arg.swapChainSupport.formats : FormatWanted(arg.swapChainSupport.formats[i])
  /\ Range(arg.swapChainSupport.presentModes) =
        {"VK_PRESENT_MODE_IMMEDIATE_KHR", "VK_PRESENT_MODE_FIFO_KHR"}
  /\ ret.presentMode = "VK_PRESENT_MODE_FIFO_KHR"
  /\ ret.imageFormat = arg.swapChainSupport.formats[1].format

\* C29: when the surface does not leave the extent to the swapchain,
\* ChooseSwapExtent returns currentExtent as it is, whatever the window size
\* and the bounds are.
C29_CurrentExtentKept ==
  (Returned("ChooseSwapExtent") /\ arg.capabilities.currentExtent.width # UINT32_MAX) =>
     ret = arg.capabilities.currentExtent

\* currentExtent lies outside the bounds and differs from the window size
C29_Witness ==
  /\ Returned("ChooseSwapExtent")
  /\ arg.capabilities.currentExtent = Extent(MaxExtent, 0)
  /\ arg.capabilities.maxImageExtent = Extent(1, 1)
  /\ arg.capabilities.minImageExtent = Extent(1, 1)
  /\ arg.window = Extent(1, 1)
  /\ ret = Extent(MaxExtent, 0)

Between(v, lo, hi) == lo <= v /\ v <= hi

\* C30: when the surface leaves the extent to the swapchain, ChooseSwapExtent
\* returns the window's framebuffer size clamped per axis into
\* [minImageExtent, maxImageExtent]: each component lies within the bounds,
\* equals the window's when that is within the bounds, the minimum when it is
\* below and the maximum when it is above.
C30_ClampedWindowSize ==
  (Returned("ChooseSwapExtent") /\ arg.capabilities.currentExtent.width = UINT32_MAX) =>
     LET c == arg.capabilities
         Clamped(r, w, lo, hi) ==
           /\ Between(r, lo, hi)
           /\ Between(w, lo, hi) => r = w
           /\ w < lo => r = lo
           /\ w > hi => r = hi
     IN /\ Clamped(ret.width, arg.window.width, c.minImageExtent.width, c.maxImageExtent.width)
        /\ Clamped(ret.height, arg.window.height, c.minImageExtent.height, c.maxImageExtent.height)

\* one axis is cut down to the maximum, the other raised to the minimum
C30_Witness ==
  /\ Returned("ChooseSwapExtent")
  /\ arg.capabilities.currentExtent.width = UINT32_MAX
  /\ arg.window.width > arg.capabilities.maxImageExtent.width
  /\ arg.window.height < arg.capabilities.minImageExtent.height
  /\ ret = Extent(arg.capabilities.maxImageExtent.width, arg.capabilities.minImageExtent.height)

\* C22: TransitionImageLayout returns for exactly the pairs undefined to
\* transfer-destination and transfer-destination to shader-read-only; for
\* every other pair it throws, having recorded no barrier and submitted
\* nothing.
C22_TwoTransitions ==
  (callee = "TransitionImageLayout" /\ fpc # "call") =>
     LET accepted ==
           <<arg.oldLayout, arg.newLayout>> \in
             {<<"VK_IMAGE_LAYOUT_UNDEFINED", "VK_IMAGE_LAYOUT_TRANSFER_DST_OPTIMAL">>,
              <<"VK_IMAGE_LAYOUT_TRANSFER_DST_OPTIMAL", "VK_IMAGE_LAYOUT_SHADER_READ_ONLY_OPTIMAL">>}
     IN IF accepted
        THEN /\ fpc = "returned" /\ Len(cmds) = 1 /\ submits = 1
             /\ \A l \in DOMAIN mem :
                  mem[l] = IF loc.executed THEN arg.newLayout ELSE arg.oldLayout
        ELSE /\ fpc = "thrown" /\ cmds = <<>> /\ submits = 0
             /\ \A l \in DOMAIN mem : mem[l] = arg.oldLayout

\* a transition into the transfer-destination layout from a layout other
\* than undefined is refused
C22_Witness ==
  /\ callee = "TransitionImageLayout" /\ fpc = "thrown"
  /\ arg.oldLayout = "VK_IMAGE_LAYOUT_SHADER_READ_ONLY_OPTIMAL"
  /\ arg.newLayout = "VK_IMAGE_LAYOUT_TRANSFER_DST_OPTIMAL"
  /\ arg.mipLevels = MaxLevels

\* the commands of the log that are barriers on level l, in order
RECURSIVE BarriersOn(_, _)
BarriersOn(log, l) ==
  IF log = <<>> THEN <<>>
  ELSE LET c == Head(log)
       IN IF c.cmd = "vkCmdPipelineBarrier" /\ c.baseMipLevel = l
          THEN <<<<c.oldLayout, c.newLayout>>>> \o BarriersOn(Tail(log), l)
          ELSE BarriersOn(Tail(log), l)

BlitsFrom(log, l) == {k \in 1 .. Len(log) : log[k].cmd = "vkCmdBlitImage" /\ log[k].srcLevel = l}

\* C23: when GenerateMipmaps has returned for an image whose L >= 1 levels
\* were all in the transfer-destination layout and the queue has run its
\* commands, every level is in the shader-read-only layout; each level below L-1 went there through the
\* transfer-source layout and was the source of exactly one blit, and level
\* L-1 went there straight from transfer-destination and was the source of
\* none.
C23_AllLevelsReadable ==
  Returned("GenerateMipmaps") =>
    \A l \in 0 .. (arg.mipLevels - 1) :
       /\ loc.executed => mem[l] = "VK_IMAGE_LAYOUT_SHADER_READ_ONLY_OPTIMAL"
       /\ IF l < arg.mipLevels - 1
          THEN /\ BarriersOn(cmds, l) =
                    << <<"VK_IMAGE_LAYOUT_TRANSFER_DST_OPTIMAL", "VK_IMAGE_LAYOUT_TRANSFER_SRC_OPTIMAL">>,
                       <<"VK_IMAGE_LAYOUT_TRANSFER_SRC_OPTIMAL", "VK_IMAGE_LAYOUT_SHADER_READ_ONLY_OPTIMAL">> >>
               /\ Cardinality(BlitsFrom(cmds, l)) = 1
          ELSE /\ BarriersOn(cmds, l) =
                    << <<"VK_IMAGE_LAYOUT_TRANSFER_DST_OPTIMAL", "VK_IMAGE_LAYOUT_SHADER_READ_ONLY_OPTIMAL">> >>
               /\ BlitsFrom(cmds, l) = {}

\* an image with the most levels, more than its size gives
C23_Witness ==
  /\ Returned("GenerateMipmaps") /\ loc.executed
  /\ arg.mipLevels = MaxLevels
  /\ arg.texWidth = 1 /\ arg.texHeight = 2
  /\ Len(cmds) = 3 * (MaxLevels - 1) + 1

\* width or height of level i of a W x H image
LevelDim(d, i) == Max(1, d \div (2 ^ i))

\* C24: for a W x H texture CreateTextureImage asks for L levels with
\* 2^(L-1) <= max(W, H) < 2^L; the blit into level i reads level i-1 at its
\* size and writes level i at max(1, floor(previous / 2)) per axis, where
\* level 0 is W x H; the last level is 1 x 1, and 512 x 256 gives 10 levels.
C24_LevelSizes ==
  (callee = "GenerateMipmaps" /\ arg.caller = "CreateTextureImage") =>
    LET W == arg.texWidth
        H == arg.texHeight
        L == arg.mipLevels
    IN /\ 2 ^ (L - 1) <= Max(W, H) /\ Max(W, H) < 2 ^ L
       /\ (W = 512 /\ H = 256) => L = 10
       /\ LevelDim(W, L - 1) = 1 /\ LevelDim(H, L - 1) = 1
       /\ \A k \in 1 .. Len(cmds) :
            cmds[k].cmd = "vkCmdBlitImage" =>
              LET i == cmds[k].dstLevel
              IN /\ 1 <= i /\ i <= L - 1 /\ cmds[k].srcLevel = i - 1
                 /\ cmds[k].srcExtent = Extent(LevelDim(W, i - 1), LevelDim(H, i - 1))
                 /\ cmds[k].dstExtent = Extent(Max(1, cmds[k].srcExtent.width \div 2),
                                               Max(1, cmds[k].srcExtent.height \div 2))
                 /\ cmds[k].dstExtent = Extent(LevelDim(W, i), LevelDim(H, i))
       /\ fpc = "returned" =>
            \A i \in 1 .. (L - 1) : \E k \in 1 .. Len(cmds) :
               cmds[k].cmd = "vkCmdBlitImage" /\ cmds[k].dstLevel = i

\* the 512 x 256 texture: ten levels, the last blit from 2 x 1 into 1 x 1
C24_Witness ==
  /\ Returned("GenerateMipmaps") /\ arg.caller = "CreateTextureImage"
  /\ arg.texWidth = 512 /\ arg.texHeight = 256
  /\ arg.mipLevels = 10
  /\ \E k \in 1 .. Len(cmds) :
       /\ cmds[k].cmd = "vkCmdBlitImage" /\ cmds[k].dstLevel = 9
       /\ cmds[k].srcExtent = Extent(2, 1) /\ cmds[k].dstExtent = Extent(1, 1)

\* C21: when CreateVertexBuffer or CreateIndexBuffer has returned for a vector
\* of N > 0 bytes, the staging buffer having been mapped and the queue having
\* run the copy, the device-local buffer holds N bytes, byte for byte those
\* of the vector; the one command recorded copies N bytes from offset 0 to
\* offset 0.
C21_UploadRoundTrip ==
  (callee \in Uploads /\ fpc = "returned") =>
     /\ cmds = <<[cmd |-> "vkCmdCopyBuffer", srcOffset |-> 0, dstOffset |-> 0,
                  size |-> Len(arg.data)]>>
     /\ Len(mem.buffer) = Len(arg.data)
     /\ (loc.mapped /\ loc.executed) => mem.buffer = arg.data

\* the largest vertex vector has arrived in device-local memory
C21_Witness ==
  /\ callee = "CreateVertexBuffer" /\ fpc = "returned"
  /\ loc.mapped /\ loc.executed
  /\ Len(arg.data) = SizeOfVertex * MaxCount
  /\ mem.buffer[Len(arg.data)] = Len(arg.data)

\* C31 as stated: for capabilities minImageCount = m and maxImageCount = M the
\* image count CreateSwapChain asks for is m+1 if M = 0 or m+1 <= M, and M
\* otherwise; whenever M > 0 and m <= M it lies in m .. M.
C31_ImageCount ==
  Returned("CreateSwapChain") =>
    LET m == arg.swapChainSupport.capabilities.minImageCount
        M == arg.swapChainSupport.capabilities.maxImageCount
    IN /\ ret.minImageCount = IF M = 0 \/ m + 1 <= M THEN m + 1 ELSE M
       /\ (M > 0 /\ m <= M) => (m <= ret.minImageCount /\ ret.minImageCount <= M)

\* the same for every minImageCount below the largest uint32_t
C31_ImageCountBelowMax ==
  (Returned("CreateSwapChain")
     /\ arg.swapChainSupport.capabilities.minImageCount < UINT32_MAX) =>
    LET m == arg.swapChainSupport.capabilities.minImageCount
        M == arg.swapChainSupport.capabilities.maxImageCount
    IN /\ ret.minImageCount = IF M = 0 \/ m + 1 <= M THEN m + 1 ELSE M
       /\ (M > 0 /\ m <= M) => (m <= ret.minImageCount /\ ret.minImageCount <= M)
       /\ (m = 2 /\ M = 0) => ret.minImageCount = 3
       /\ (m = 2 /\ M = 2) => ret.minImageCount = 2

\* the places of the log where a blit is recorded
Blits(log) == {k \in 1 .. Len(log) : log[k].cmd = "vkCmdBlitImage"}

\* C33: in GenerateMipmaps on an image whose levels are all in the
\* transfer-destination layout, every blit is recorded with its source level
\* i-1 in the transfer-source layout and its destination level i in the
\* transfer-destination layout; no barrier recorded before a blit has moved
\* the blit's destination out of transfer-destination, and the source of a
\* blit is level 0 or the destination of an earlier blit followed by the
\* barrier that makes it a transfer source.
C33_LayoutsAtBlit ==
  (callee = "GenerateMipmaps" /\ fpc = "loop"
     /\ \A l \in DOMAIN mem : mem[l] = "VK_IMAGE_LAYOUT_TRANSFER_DST_OPTIMAL") =>
    /\ Cardinality(Blits(cmds)) = loc.i - 1
    /\ \A k \in Blits(cmds) :
         LET b == cmds[k]
         IN /\ b.srcLevel \in 0 .. (arg.mipLevels - 2)
            /\ b.dstLevel = b.srcLevel + 1
            /\ b.layouts[b.srcLevel] = "VK_IMAGE_LAYOUT_TRANSFER_SRC_OPTIMAL"
            /\ b.layouts[b.dstLevel] = "VK_IMAGE_LAYOUT_TRANSFER_DST_OPTIMAL"
            /\ \A j \in 1 .. (k - 1) :
                 cmds[j].cmd = "vkCmdPipelineBarrier" => cmds[j].baseMipLevel # b.dstLevel
            /\ b.srcLevel > 0 =>
                 \E j \in Blits(cmds) :
                    /\ j < k /\ cmds[j].dstLevel = b.srcLevel
                    /\ \E t \in (j + 1) .. (k - 1) :
                         /\ cmds[t].cmd = "vkCmdPipelineBarrier"
                         /\ cmds[t].baseMipLevel = b.srcLevel
                         /\ cmds[t].newLayout = "VK_IMAGE_LAYOUT_TRANSFER_SRC_OPTIMAL"

\* all blits of an image with the most levels have been recorded
C33_Witness ==
  /\ callee = "GenerateMipmaps" /\ fpc = "loop"
  /\ \A l \in DOMAIN mem : mem[l] = "VK_IMAGE_LAYOUT_TRANSFER_DST_OPTIMAL"
  /\ arg.mipLevels = MaxLevels /\ loc.i = MaxLevels
  /\ Cardinality(Blits(cmds)) = MaxLevels - 1

\* the functions that record into a command buffer from BeginSingleTimeCommands
OneShotCallers == {"TransitionImageLayout", "GenerateMipmaps"}

\* the call has allocated a single-time command buffer
OneShotAllocated == callee \in OneShotCallers /\ "commandBuffer" \in DOMAIN loc

\* C38: when a function that took a command buffer from
\* BeginSingleTimeCommands returns or throws, EndSingleTimeCommands has
\* submitted and freed that command buffer.
C38_OneShotFreed ==
  (OneShotAllocated /\ fpc \in {"returned", "thrown"}) =>
     (loc.commandBuffer = "freed" /\ submits >= 1)

\* what does hold: the command buffer is freed on every return
C38_OneShotFreedOnReturn ==
  (OneShotAllocated /\ fpc = "returned") =>
     (loc.commandBuffer = "freed" /\ submits >= 1)
====
